---- MODULE Spec2Model ----
(***************************************************************************)
(* Model of the resilient Grafana API client, src/genkit/grafanaApi.ts:    *)
(* one grafanaApiRequest call with its attempt loop, the per-attempt abort *)
(* timer, the backoff timer, the transport's answers and the two catch     *)
(* blocks.  Strings are sequences of character codes; time is counted in   *)
(* ticks (one tick = one millisecond unit of the configured durations).    *)
(***************************************************************************)
EXTENDS Integers, Sequences, FiniteSets, TLC

(* ------------------------------ bounds -------------------------------- *)
MaxRetriesBound == 2
MaxBaseDelay == 2
MaxTimeout == 5
MaxEndpointLen == 3
MaxUrlLen == 3
MaxHeaders == 2
MaxLogLines == 2
MaxFlows == 2
MaxClock == 4

(* --------------------------- character codes -------------------------- *)
SP == 32
SLASH == 47
COLON == 58

(* process.env values: a variable is either unset or a string *)
Unset == [set |-> FALSE, val |-> <<>>]
Str(s) == [set |-> TRUE, val |-> s]

(* ----------------------------- GrafanaErrorType ----------------------- *)
AUTHENTICATION == "AUTHENTICATION_ERROR"
AUTHORIZATION == "AUTHORIZATION_ERROR"
NOT_FOUND == "NOT_FOUND_ERROR"
VALIDATION == "VALIDATION_ERROR"
SERVER == "SERVER_ERROR"
NETWORK == "NETWORK_ERROR"
TIMEOUT == "TIMEOUT_ERROR"
UNKNOWN == "UNKNOWN_ERROR"
GrafanaErrorType ==
  {AUTHENTICATION, AUTHORIZATION, NOT_FOUND, VALIDATION, SERVER, NETWORK, TIMEOUT, UNKNOWN}

(* the endpoint marker "authentication" of the credentials error *)
AuthenticationMarker ==
  <<97, 117, 116, 104, 101, 110, 116, 105, 99, 97, 116, 105, 111, 110>>

(* ------------------------------ error values -------------------------- *)
(* cls: the constructor (instanceof), name: the .name property,           *)
(* net: the message contains 'network', msg: which message it carries,    *)
(* at: the attempt in which the value was created (-1: outside the loop), *)
(* arg: the number the message text is built with (-1: none)              *)
NoType == "none"
MkError(cls, name, statusCode, endpoint, type, msg, net, at) ==
  [cls |-> cls, name |-> name, statusCode |-> statusCode, endpoint |-> endpoint,
   type |-> type, msg |-> msg, net |-> net, at |-> at, arg |-> -1]

(* new GrafanaApiError(statusCode, endpoint, message, type) *)
GrafanaApiError(statusCode, endpoint, msg, type, net, at) ==
  MkError("GrafanaApiError", "GrafanaApiError", statusCode, endpoint, type, msg, net, at)

(* new Error(message): no statusCode, no type, no endpoint *)
PlainError(msg, net, at) == MkError("Error", "Error", -1, <<>>, NoType, msg, net, at)

(* lastError = null *)
NullValue == MkError("null", "null", -1, <<>>, NoType, "null", FALSE, -1)

(* what fetch(), response.text() and response.json() can reject with *)
TypeErrorNetwork(at) == MkError("TypeError", "TypeError", -1, <<>>, NoType, "thrown", TRUE, at)
TypeErrorOther(at) == MkError("TypeError", "TypeError", -1, <<>>, NoType, "thrown", FALSE, at)
SyntaxErrorValue(at) == MkError("SyntaxError", "SyntaxError", -1, <<>>, NoType, "thrown", FALSE, at)
NonErrorValue(at) == MkError("string", "none", -1, <<>>, NoType, "thrown", FALSE, at)
AbortErrorValue(at) == MkError("DOMException", "AbortError", -1, <<>>, NoType, "aborted", FALSE, at)

(* error instanceof Error *)
IsError(e) == e.cls \in {"Error", "TypeError", "SyntaxError", "DOMException", "GrafanaApiError"}

(* ------------------------------ string helpers ------------------------ *)
RECURSIVE TrimStart(_)
TrimStart(s) == IF s # <<>> /\ Head(s) = SP THEN TrimStart(Tail(s)) ELSE s

RECURSIVE TrimEnd(_)
TrimEnd(s) ==
  IF s # <<>> /\ s[Len(s)] = SP THEN TrimEnd(SubSeq(s, 1, Len(s) - 1)) ELSE s

(* String.prototype.trim *)
Trim(s) == TrimEnd(TrimStart(s))

(* process.env.X?.trim(): undefined stays undefined *)
EnvTrim(v) == IF v.set THEN Str(Trim(v.val)) ELSE Unset

(* JavaScript truthiness of a string-or-undefined value *)
Truthy(v) == v.set /\ v.val # <<>>

EndsWithSlash(s) == s # <<>> /\ s[Len(s)] = SLASH
StartsWithSlash(s) == s # <<>> /\ Head(s) = SLASH

(* ------------------------------ base64 -------------------------------- *)
(* Buffer.from(s).toString('base64') on a sequence of byte values; the    *)
(* result is the sequence of 6-bit alphabet indices, 64 standing for '='  *)
PAD == 64
RECURSIVE Base64(_)
Base64(b) ==
  IF b = <<>> THEN <<>>
  ELSE IF Len(b) = 1 THEN
    << b[1] \div 4, (b[1] % 4) * 16, PAD, PAD >>
  ELSE IF Len(b) = 2 THEN
    << b[1] \div 4, (b[1] % 4) * 16 + (b[2] \div 16), (b[2] % 16) * 4, PAD >>
  ELSE
    << b[1] \div 4, (b[1] % 4) * 16 + (b[2] \div 16),
       (b[2] % 16) * 4 + (b[3] \div 64), b[3] % 64 >>
    \o Base64(SubSeq(b, 4, Len(b)))

(* ------------------------------ validateEnvironment ------------------- *)
(* variant: missing credentials are reported with a plain Error *)
validateEnvironment_PlainCredError(e) ==
  LET url == EnvTrim(e.GRAFANA_URL)
      apiKey == EnvTrim(e.GRAFANA_API_KEY)
      username == EnvTrim(e.GRAFANA_USERNAME)
      password == EnvTrim(e.GRAFANA_PASSWORD)
      normalizedUrl == IF EndsWithSlash(url.val) THEN url.val ELSE url.val \o <<SLASH>>
      none == [scheme |-> "none", value |-> <<>>]
  IN IF ~Truthy(url) THEN
       [ok |-> FALSE, url |-> <<>>, authHeader |-> none,
        error |-> PlainError("GRAFANA_URL must be set", FALSE, -1)]
     ELSE IF Truthy(apiKey) THEN
       [ok |-> TRUE, url |-> normalizedUrl,
        authHeader |-> [scheme |-> "Bearer", value |-> apiKey.val],
        error |-> NullValue]
     ELSE IF Truthy(username) /\ Truthy(password) THEN
       [ok |-> TRUE, url |-> normalizedUrl,
        authHeader |-> [scheme |-> "Basic",
                        value |-> Base64(username.val \o <<COLON>> \o password.val)],
        error |-> NullValue]
     ELSE
       [ok |-> FALSE, url |-> <<>>, authHeader |-> none,
        error |-> PlainError("credentials not found", FALSE, -1)]

(* variant: username and password are looked at before the API key *)
validateEnvironment_BasicFirst(e) ==
  LET url == EnvTrim(e.GRAFANA_URL)
      apiKey == EnvTrim(e.GRAFANA_API_KEY)
      username == EnvTrim(e.GRAFANA_USERNAME)
      password == EnvTrim(e.GRAFANA_PASSWORD)
      normalizedUrl == IF EndsWithSlash(url.val) THEN url.val ELSE url.val \o <<SLASH>>
      none == [scheme |-> "none", value |-> <<>>]
  IN IF ~Truthy(url) THEN
       [ok |-> FALSE, url |-> <<>>, authHeader |-> none,
        error |-> PlainError("GRAFANA_URL must be set", FALSE, -1)]
     ELSE IF Truthy(username) /\ Truthy(password) THEN
       [ok |-> TRUE, url |-> normalizedUrl,
        authHeader |-> [scheme |-> "Basic",
                        value |-> Base64(username.val \o <<COLON>> \o password.val)],
        error |-> NullValue]
     ELSE IF Truthy(apiKey) THEN
       [ok |-> TRUE, url |-> normalizedUrl,
        authHeader |-> [scheme |-> "Bearer", value |-> apiKey.val],
        error |-> NullValue]
     ELSE
       [ok |-> FALSE, url |-> <<>>, authHeader |-> none,
        error |-> GrafanaApiError(401, AuthenticationMarker, "credentials not found",
                                  AUTHENTICATION, FALSE, -1)]

(* returns [ok, url, authHeader, error] *)
validateEnvironment(e) ==
  LET url == EnvTrim(e.GRAFANA_URL)
      apiKey == EnvTrim(e.GRAFANA_API_KEY)
      username == EnvTrim(e.GRAFANA_USERNAME)
      password == EnvTrim(e.GRAFANA_PASSWORD)
      normalizedUrl == IF EndsWithSlash(url.val) THEN url.val ELSE url.val \o <<SLASH>>
      none == [scheme |-> "none", value |-> <<>>]
  IN IF ~Truthy(url) THEN
       [ok |-> FALSE, url |-> <<>>, authHeader |-> none,
        error |-> PlainError("GRAFANA_URL must be set", FALSE, -1)]
     ELSE IF Truthy(apiKey) THEN
       [ok |-> TRUE, url |-> normalizedUrl,
        authHeader |-> [scheme |-> "Bearer", value |-> apiKey.val],
        error |-> NullValue]
     ELSE IF Truthy(username) /\ Truthy(password) THEN
       [ok |-> TRUE, url |-> normalizedUrl,
        authHeader |-> [scheme |-> "Basic",
                        value |-> Base64(username.val \o <<COLON>> \o password.val)],
        error |-> NullValue]
     ELSE
       [ok |-> FALSE, url |-> <<>>, authHeader |-> none,
        error |-> GrafanaApiError(401, AuthenticationMarker, "credentials not found",
                                  AUTHENTICATION, FALSE, -1)]

(* ------------------------------ shouldRetry --------------------------- *)
(* variant: rate limiting (429) is not retried *)
shouldRetry_No429(error, attemptCount, maxRetriesArg) ==
  IF attemptCount >= maxRetriesArg THEN FALSE
  ELSE IF error.cls = "TypeError" /\ error.net THEN TRUE
  ELSE IF error.name = "AbortError" THEN TRUE
  ELSE IF error.cls = "GrafanaApiError" THEN error.statusCode >= 500
  ELSE FALSE

(* variant: errors of unrecognized classes are retried too *)
shouldRetry_RetryAll(error, attemptCount, maxRetriesArg) ==
  IF attemptCount >= maxRetriesArg THEN FALSE
  ELSE IF error.cls = "TypeError" /\ error.net THEN TRUE
  ELSE IF error.name = "AbortError" THEN TRUE
  ELSE IF error.cls = "GrafanaApiError" THEN
    error.statusCode >= 500 \/ error.statusCode = 429
  ELSE TRUE

shouldRetry(error, attemptCount, maxRetriesArg) ==
  IF attemptCount >= maxRetriesArg THEN FALSE
  ELSE IF error.cls = "TypeError" /\ error.net THEN TRUE
  ELSE IF error.name = "AbortError" THEN TRUE
  ELSE IF error.cls = "GrafanaApiError" THEN
    error.statusCode >= 500 \/ error.statusCode = 429
  ELSE FALSE

(* ------------------------------ status classification ----------------- *)
(* response.ok *)
ResponseOk(status) == status >= 200 /\ status <= 299

(* variant: 422 is not classified as a validation error *)
errorTypeOf_No422(status) ==
  IF status = 401 THEN AUTHENTICATION
  ELSE IF status = 403 THEN AUTHORIZATION
  ELSE IF status = 404 THEN NOT_FOUND
  ELSE IF status = 400 THEN VALIDATION
  ELSE IF status >= 500 THEN SERVER
  ELSE UNKNOWN

(* "Determine error type based on status code" *)
errorTypeOf(status) ==
  IF status = 401 THEN AUTHENTICATION
  ELSE IF status = 403 THEN AUTHORIZATION
  ELSE IF status = 404 THEN NOT_FOUND
  ELSE IF status = 400 \/ status = 422 THEN VALIDATION
  ELSE IF status >= 500 THEN SERVER
  ELSE UNKNOWN

(* the backoff delay of a retry attempt *)
RECURSIVE Pow2(_)
Pow2(n) == IF n <= 0 THEN 1 ELSE 2 * Pow2(n - 1)

(* variant: the exponent is the attempt number itself *)
retryDelay_PowAttempt(base, attemptNo) == base * Pow2(attemptNo)

retryDelay(base, attemptNo) == base * Pow2(attemptNo - 1)

(* the condition of the attempt loop *)
loopCondition(attemptNo, maxRetriesArg) == attemptNo <= maxRetriesArg

(* variant: the outer catch wraps every error, typed ones included *)
outerCatch_WrapAll(error, normEndpoint) ==
  GrafanaApiError(500, normEndpoint, "Unexpected error", UNKNOWN, error.net, error.at)

(* variant: the outer catch rethrows whatever it caught *)
outerCatch_Rethrow(error, normEndpoint) == error

(* the outer catch: "Ensure all errors are properly wrapped" *)
outerCatch(error, normEndpoint) ==
  IF error.cls = "GrafanaApiError" THEN error
  ELSE GrafanaApiError(500, normEndpoint, "Unexpected error", UNKNOWN, error.net, error.at)

(* the inner catch up to the retry decision: the value held by lastError *)
wrapCaught(error, normEndpoint, attemptNo, timeoutMs) ==
  LET e0 == IF IsError(error) THEN error ELSE PlainError("thrown", error.net, attemptNo)
      e1 == IF e0.name = "AbortError"
            THEN [GrafanaApiError(408, normEndpoint, "Request timed out", TIMEOUT, FALSE,
                                  attemptNo)
                    EXCEPT !.arg = timeoutMs]   \* `Request timed out after ${timeoutMs}ms`
            ELSE e0
      e2 == IF e1.cls = "TypeError" /\ e1.net
            THEN GrafanaApiError(0, normEndpoint, "Network error", NETWORK, TRUE, attemptNo)
            ELSE e1
  IN e2

(* variant: only the type of the endpoint is checked *)
invalidEndpoint_TypeOnly(ep) == ~ep.isString

(* line 205: !endpoint || typeof endpoint !== 'string' *)
invalidEndpoint(ep) == ~ep.isString \/ ep.val = <<>>

(* line 210: endpoint.startsWith('/') ? endpoint.substring(1) : endpoint *)
normalizeEndpoint(s) == IF StartsWithSlash(s) THEN Tail(s) ELSE s

(* ------------------------------ headers ------------------------------ *)
(* a property key of a headers object: its spelling, and the name it has   *)
(* for the transport, which compares header names without regard to case   *)
HeaderKey(form, lc) == [form |-> form, lc |-> lc]
AuthorizationKey == HeaderKey("Authorization", "authorization")
ContentTypeKey == HeaderKey("Content-Type", "content-type")
AcceptKey == HeaderKey("Accept", "accept")

(* header values: the credential [scheme, value], or a text named by scheme *)
TextValue(t) == [scheme |-> t, value |-> <<>>]
ApplicationJson == TextValue("application/json")
Redacted == TextValue("[REDACTED]")
CredentialValue(authHeader) == authHeader

(* a headers object is the list of its own properties in insertion order;  *)
(* writing a key that exists replaces its value in place                    *)
HasKey(h, key) == \E i \in 1 .. Len(h) : h[i].key = key
setProperty(h, key, value) ==
  IF HasKey(h, key)
  THEN [i \in 1 .. Len(h) |-> IF h[i].key = key THEN [key |-> key, value |-> value] ELSE h[i]]
  ELSE Append(h, [key |-> key, value |-> value])

(* lines 257-262: the caller's headers spread first, then the three fixed keys *)
requestHeaders(callerHeaders, authHeader) ==
  setProperty(
    setProperty(
      setProperty(callerHeaders, AuthorizationKey, CredentialValue(authHeader)),
      ContentTypeKey, ApplicationJson),
    AcceptKey, ApplicationJson)

(* what fetch sends under a header name: the values of every property whose *)
(* key is that name in any letter case, combined in insertion order         *)
RECURSIVE wireHeader(_, _)
wireHeader(h, lc) ==
  IF h = <<>> THEN <<>>
  ELSE IF Head(h).key.lc = lc THEN <<Head(h).value>> \o wireHeader(Tail(h), lc)
  ELSE wireHeader(Tail(h), lc)

(* ------------------------------ safeLog ------------------------------- *)
(* the data argument: the names of its plain fields, and its headers field *)
NoHeadersField == [present |-> FALSE, entries |-> <<>>]
HeadersField(h) == [present |-> TRUE, entries |-> h]
LogData(fields, headers) == [fields |-> fields, headers |-> headers]

(* if (sanitizedHeaders.X): the property exists and its value is not '' *)
TruthyProperty(h, key) ==
  \E i \in 1 .. Len(h) : h[i].key = key /\ h[i].value # TextValue("")

(* lines 138-151: the copy of data with the two spellings overwritten *)
sanitize(data) ==
  IF ~data.headers.present THEN data
  ELSE LET h0 == data.headers.entries
           upperKey == AuthorizationKey
           lowerKey == HeaderKey("authorization", "authorization")
           h1 == IF TruthyProperty(h0, upperKey) THEN setProperty(h0, upperKey, Redacted) ELSE h0
           h2 == IF TruthyProperty(h1, lowerKey) THEN setProperty(h1, lowerKey, Redacted) ELSE h1
       IN [data EXCEPT !.headers = HeadersField(h2)]

(* lines 135-155: the console after the call; arg is the number the message *)
(* text is built with, -1 when it has none                                  *)
safeLog(cs, message, arg, data, enableLogging) ==
  IF ~enableLogging THEN cs
  ELSE Append(cs, [message |-> message, arg |-> arg, data |-> sanitize(data)])

(* ------------------------------ the timeout --------------------------- *)
(* variant: no timeout timer is armed *)
armTimeout_Never(tm, k, timeoutMs) == tm

(* line 243: setTimeout(() => controller.abort(), timeoutMs) *)
armTimeout(tm, k, timeoutMs) == [tm EXCEPT ![k] = timeoutMs]

(* ------------------------------ the transport ------------------------- *)
(* the calls to fetch that have not settled, by attempt *)
issue(tr, k) == tr \cup {k}
(* variant: the attempt goes on without the fetch having settled *)
settle_NotAwaited(tr, k) == tr

settle(tr, k) == tr \ {k}

(* line 226: `${url}${normalizedEndpoint}` *)
requestUrl(url, normalizedEndpoint) == url \o normalizedEndpoint

(* ------------------------------ inputs -------------------------------- *)
(* endpoint arguments: a string, or a value that is not a string (null)   *)
NotAString == [isString |-> FALSE, val |-> <<>>]
EndpointArg(s) == [isString |-> TRUE, val |-> s]
(* "", "a" and "/a" *)
EndpointValues ==
  {NotAString, EndpointArg(<<>>), EndpointArg(<<97>>), EndpointArg(<<SLASH, 97>>)}

(* URL unset, " " or "h"; credentials none, key "k", user "u", user "u" with password "p" *)
EnvValues ==
  { [GRAFANA_URL |-> u, GRAFANA_API_KEY |-> c[1],
     GRAFANA_USERNAME |-> c[2], GRAFANA_PASSWORD |-> c[3]] :
      u \in {Unset, Str(<<SP>>), Str(<<104>>)},
      c \in { <<Unset, Unset, Unset>>,
              <<Str(<<107>>), Unset, Unset>>,
              <<Unset, Str(<<117>>), Unset>>,
              <<Unset, Str(<<117>>), Str(<<112>>)>> } }

(* every string of at most n characters over an alphabet *)
Strings(chars, n) == UNION {[1 .. k -> chars] : k \in 0 .. n}

(* endpoints over "/" and "a" *)
WideEndpointValues ==
  {NotAString} \cup {EndpointArg(e) : e \in Strings({SLASH, 97}, MaxEndpointLen)}

(* GRAFANA_URL unset or over " ", "/" and "h"; the key unset, "", " ", "k"   *)
(* or " k "; the username unset, "" or "u"; the password unset, " " or "p"   *)
WideEnvValues ==
  { [GRAFANA_URL |-> u, GRAFANA_API_KEY |-> k,
     GRAFANA_USERNAME |-> n, GRAFANA_PASSWORD |-> w] :
      u \in {Unset} \cup {Str(t) : t \in Strings({SP, SLASH, 104}, MaxUrlLen)},
      k \in {Unset, Str(<<>>), Str(<<SP>>), Str(<<107>>), Str(<<SP, 107, SP>>)},
      n \in {Unset, Str(<<>>), Str(<<117>>)},
      w \in {Unset, Str(<<SP>>), Str(<<112>>)} }

(* URL "h" with the key "k" *)
PlainEnv == [GRAFANA_URL |-> Str(<<104>>), GRAFANA_API_KEY |-> Str(<<107>>),
             GRAFANA_USERNAME |-> Unset, GRAFANA_PASSWORD |-> Unset]

(* keys a caller may pass in options.headers, each with the value "caller" *)
CallerHeaderKeys ==
  { AuthorizationKey, HeaderKey("authorization", "authorization"),
    ContentTypeKey, HeaderKey("content-type", "content-type"),
    HeaderKey("accept", "accept"), HeaderKey("X-Custom", "x-custom") }
CallerValue == TextValue("caller")
CallerHeaderValues ==
  { [i \in 1 .. Len(q) |-> [key |-> q[i], value |-> CallerValue]] :
      q \in { t \in Strings(CallerHeaderKeys, MaxHeaders) :
                \A i, j \in 1 .. Len(t) : i # j => t[i] # t[j] } }

MaxRetriesValues == (-1) .. MaxRetriesBound
BaseDelayValues == 1 .. MaxBaseDelay
TimeoutValues == 1 .. MaxTimeout

(* statuses the transport may answer with *)
StatusValues == {200, 302, 400, 401, 403, 404, 409, 422, 429, 500, 503}
ContentTypes == {"application/json", "text/plain"}
(* body "json": the text is valid JSON; "raw": it is not *)
BodyKinds == {"json", "raw"}
(* how reading the body ends: completely, or with a stream failure *)
BodyFaults == {"none", "TypeErrorNetwork", "TypeErrorOther"}
RejectKinds == {"TypeErrorNetwork", "TypeErrorOther", "NonError"}

AttemptIds == 0 .. (MaxRetriesBound + 1)

(* ------------------------------ state --------------------------------- *)
VARIABLES
  endpoint,      \* the endpoint argument
  options,       \* timeoutMs, maxRetries, baseRetryDelayMs
  env,           \* process.env
  pc,            \* "init", "backoff", "inflight", "done"
  req,           \* normalizedEndpoint, url, authHeader, requestUrl
  attempt,       \* the loop variable
  lastError,     \* lastError
  timer,         \* timeoutId of each attempt: ticks left, -1 when not pending
  aborted,       \* controller.signal.aborted of each attempt
  delayTimer,    \* the backoff timer: ticks left, -1 when not pending
  waited,        \* ticks spent in the current attempt before its fetch
  fetchElapsed,  \* ticks since the current fetch was issued
  fetchCount,    \* number of fetch() invocations
  waits,         \* for each fetch issued, the wait that preceded it
  outcomes,      \* how each attempt ended, as the call observed it
  result,        \* what the returned promise settled with
  requests,      \* the url and headers handed to each fetch() invocation
  transport,     \* the attempts whose fetch has not settled
  console,       \* what console.log was called with
  peer,          \* the other calls of the process, suspended at an await
  clock,         \* Date.now()
  dashboardsCache,        \* grafanaFlow.ts: dashboardsCache
  dashboardsCacheExpiry,  \* grafanaFlow.ts: dashboardsCacheExpiry
  flow,          \* the runs of grafanaFlow, each with its position and locals
  toolRun        \* a run of one of the tools, with its position and locals

(* the state of the flow and of the tools *)
flowVars == <<clock, dashboardsCache, dashboardsCacheExpiry, flow, toolRun>>

(* the state of a call of grafanaApiRequest *)
apiVars == <<endpoint, options, env, pc, req, attempt, lastError, timer, aborted,
             delayTimer, waited, fetchElapsed, fetchCount, waits, outcomes, result,
             requests, transport, console, peer>>

vars == <<endpoint, options, env, pc, req, attempt, lastError, timer, aborted,
          delayTimer, waited, fetchElapsed, fetchCount, waits, outcomes, result,
          requests, transport, console, peer,
          clock, dashboardsCache, dashboardsCacheExpiry, flow, toolRun>>

inputs == <<endpoint, options, env>>
fixed == <<endpoint, options, env, peer, flowVars>>

Pending == [kind |-> "pending", value |-> "none", error |-> NullValue]
Resolved(v) == [kind |-> "value", value |-> v, error |-> NullValue]
Rejected(e) == [kind |-> "error", value |-> "none", error |-> e]

NoReq == [normalizedEndpoint |-> <<>>, url |-> <<>>,
          authHeader |-> [scheme |-> "none", value |-> <<>>], requestUrl |-> <<>>]

Outcome(kind, status, net, ctype, body, jsonCalled, textCalled) ==
  [kind |-> kind, status |-> status, at |-> attempt, elapsed |-> fetchElapsed,
   net |-> net, ctype |-> ctype, body |-> body,
   jsonCalled |-> jsonCalled, textCalled |-> textCalled, thrown |-> NullValue]

(* no headers passed *)
NoHeaders == <<>>
(* the fields of a console line that are not headers *)
NoData == LogData({}, NoHeadersField)

(* let dashboardsCache = null *)
NoCache == [present |-> FALSE, len |-> 0, issuedAt |-> -1, failed |-> FALSE]
(* no tool is running *)
NoToolRun == [tool |-> "none", pc |-> "idle", apiRequests |-> <<>>, apiResults |-> <<>>,
              outcome |-> [kind |-> "pending",
                           value |-> [shape |-> "none", n |-> 0, panel |-> "none"],
                           error |-> NullValue]]

(* the module state of grafanaFlow.ts as loaded (lines 23-24); no flow and *)
(* no tool has run                                                          *)
NoString == [set |-> FALSE, val |-> ""]
NoNumber == [set |-> FALSE, val |-> 0]
Some(v) == [set |-> TRUE, val |-> v]
NoOutput ==
  [kind |-> "none", requiresDashboardData |-> FALSE, directAnswer |-> NoString,
   dashboardUid |-> NoString, panelId |-> NoNumber, from |-> NoString, to |-> NoString]
NoParams == [dashboardUid |-> "", panelId |-> 0, from |-> "", to |-> ""]
NoDiscovery ==
  [kind |-> "none", now |-> -1, sawCache |-> FALSE, sawExpiry |-> 0,
   issuedAt |-> -1, failed |-> FALSE]
IdleFlow ==
  [pc |-> "idle", output |-> NoOutput, discovery |-> NoDiscovery,
   panelParams |-> NoParams, steps |-> <<>>, chunks |-> <<>>, answer |-> NoString]
FlowStart ==
  /\ clock = 0
  /\ dashboardsCache = NoCache
  /\ dashboardsCacheExpiry = 0
  /\ flow = [f \in 1 .. MaxFlows |-> IdleFlow]
  /\ toolRun = NoToolRun

(* the state of a call that has not run yet *)
Start ==
  /\ FlowStart
  /\ pc = "init"
  /\ req = NoReq
  /\ attempt = 0
  /\ lastError = NullValue
  /\ timer = [k \in AttemptIds |-> -1]
  /\ aborted = [k \in AttemptIds |-> FALSE]
  /\ delayTimer = -1
  /\ waited = 0
  /\ fetchElapsed = 0
  /\ fetchCount = 0
  /\ waits = <<>>
  /\ outcomes = <<>>
  /\ result = Pending
  /\ requests = <<>>
  /\ transport = {}
  /\ console = <<>>

(* one call; headers and enableLogging are left at their defaults (line 79) *)
Init ==
  /\ endpoint \in EndpointValues
  /\ options \in [timeoutMs : TimeoutValues, maxRetries : MaxRetriesValues,
                  baseRetryDelayMs : BaseDelayValues,
                  enableLogging : {FALSE}, headers : {NoHeaders}]
  /\ env \in EnvValues
  /\ peer = <<>>
  /\ Start

(* ------------------------------ the catch block ----------------------- *)
(* lines 309-347: error was caught in the current attempt; tm, ab, oc are *)
(* the timers, abort flags, outcomes and console as the try block left them *)
AfterCatch(error, tm, ab, oc, cs) ==
  LET le == wrapCaught(error, req.normalizedEndpoint, attempt, options.timeoutMs)
  IN /\ lastError' = le
     /\ outcomes' = [oc EXCEPT ![Len(oc)].thrown = error]
     /\ console' = IF shouldRetry(le, attempt, options.maxRetries)
                      /\ loopCondition(attempt + 1, options.maxRetries)
                   THEN safeLog(cs, "Retry attempt", attempt + 1, NoData,
                                options.enableLogging)   \* line 248
                   ELSE cs
     /\ waited' = 0
     /\ IF shouldRetry(le, attempt, options.maxRetries)
        THEN IF loopCondition(attempt + 1, options.maxRetries)
             THEN /\ attempt' = attempt + 1
                  /\ timer' = armTimeout(tm, attempt + 1, options.timeoutMs)
                  /\ aborted' = [ab EXCEPT ![attempt + 1] = FALSE]
                  /\ delayTimer' = retryDelay(options.baseRetryDelayMs, attempt + 1)
                  /\ pc' = "backoff"
                  /\ result' = result
             ELSE /\ attempt' = attempt + 1
                  /\ timer' = tm
                  /\ aborted' = ab
                  /\ delayTimer' = -1
                  /\ pc' = "done"
                  /\ result' = Rejected(outerCatch(le, req.normalizedEndpoint))
        ELSE /\ attempt' = attempt
             /\ timer' = tm
             /\ aborted' = ab
             /\ delayTimer' = -1
             /\ pc' = "done"
             /\ result' = Rejected(outerCatch(le, req.normalizedEndpoint))

(* ------------------------------ grafanaApiRequest --------------------- *)
(* the call, from its entry to its first suspension (lines 200-264) *)
grafanaApiRequest ==
  /\ pc = "init"
  /\ UNCHANGED <<fixed, lastError, aborted, delayTimer, waited, fetchElapsed, outcomes>>
  /\ IF invalidEndpoint(endpoint)
     THEN /\ pc' = "done"
          /\ result' = Rejected(PlainError("Endpoint must be a non-empty string", FALSE, -1))
          /\ UNCHANGED <<req, attempt, timer, fetchCount, waits, requests, transport, console>>
     ELSE LET normalizedEndpoint == normalizeEndpoint(endpoint.val)
              ve == validateEnvironment(env)
          IN IF ~ve.ok
             THEN /\ pc' = "done"
                  /\ result' = Rejected(outerCatch(ve.error, normalizedEndpoint))
                  /\ req' = [NoReq EXCEPT !.normalizedEndpoint = normalizedEndpoint]
                  /\ UNCHANGED <<attempt, timer, fetchCount, waits, requests, transport, console>>
             ELSE /\ req' = [normalizedEndpoint |-> normalizedEndpoint, url |-> ve.url,
                             authHeader |-> ve.authHeader,
                             requestUrl |-> requestUrl(ve.url, normalizedEndpoint)]
                  /\ attempt' = 0
                  /\ console' = safeLog(console, "Making request", -1,
                                        LogData({"url", "method", "timeout", "maxRetries"},
                                                NoHeadersField),
                                        options.enableLogging)   \* lines 229-234
                  /\ IF loopCondition(0, options.maxRetries)
                     THEN /\ timer' = armTimeout(timer, 0, options.timeoutMs)
                          /\ fetchCount' = fetchCount + 1
                          /\ waits' = Append(waits, 0)
                          /\ requests' = Append(requests,
                               [url |-> requestUrl(ve.url, normalizedEndpoint), at |-> 0,
                                headers |-> requestHeaders(options.headers, ve.authHeader)])
                          /\ transport' = issue(transport, 0)
                          /\ pc' = "inflight"
                          /\ result' = result
                     ELSE /\ pc' = "done"
                          /\ result' = Rejected(outerCatch(NullValue, normalizedEndpoint))
                          /\ UNCHANGED <<timer, fetchCount, waits, requests, transport>>

(* ------------------------------ time ---------------------------------- *)
PendingTimers == {k \in AttemptIds : timer[k] >= 0}

(* the timers of a suspended call *)
HasPendingTimer(c) == c.delayTimer >= 0 \/ \E k \in AttemptIds : c.timer[k] >= 0
HasDueTimer(c) == c.delayTimer = 0 \/ \E k \in AttemptIds : c.timer[k] = 0
Elapse(c) ==
  [c EXCEPT !.timer = [k \in AttemptIds |-> IF c.timer[k] > 0 THEN c.timer[k] - 1 ELSE c.timer[k]],
            !.delayTimer = IF c.delayTimer > 0 THEN c.delayTimer - 1 ELSE c.delayTimer,
            !.waited = IF c.pc = "backoff" THEN c.waited + 1 ELSE c.waited,
            !.fetchElapsed = IF c.pc = "inflight" THEN c.fetchElapsed + 1 ELSE c.fetchElapsed]

(* one unit of time passes; a timer that is due fires before time moves on *)
Tick ==
  /\ \/ PendingTimers # {} \/ delayTimer >= 0
     \/ \E i \in 1 .. Len(peer) : HasPendingTimer(peer[i])
  /\ \A k \in AttemptIds : timer[k] # 0
  /\ delayTimer # 0
  /\ \A i \in 1 .. Len(peer) : ~HasDueTimer(peer[i])
  /\ peer' = [i \in 1 .. Len(peer) |-> Elapse(peer[i])]
  /\ timer' = [k \in AttemptIds |-> IF timer[k] > 0 THEN timer[k] - 1 ELSE timer[k]]
  /\ delayTimer' = IF delayTimer > 0 THEN delayTimer - 1 ELSE delayTimer
  /\ waited' = IF pc = "backoff" THEN waited + 1 ELSE waited
  /\ fetchElapsed' = IF pc = "inflight" THEN fetchElapsed + 1 ELSE fetchElapsed
  /\ UNCHANGED <<inputs, pc, req, attempt, lastError, aborted, fetchCount, waits,
                 outcomes, result, requests, transport, console, flowVars>>

(* the callback of setTimeout(() => controller.abort(), timeoutMs) (line 243); *)
(* aborting the signal of the fetch in flight rejects it with an AbortError    *)
AbortFire(k) ==
  /\ timer[k] = 0
  /\ UNCHANGED <<fixed, req, fetchCount, waits, requests>>
  /\ LET tm == [timer EXCEPT ![k] = -1]
         ab == [aborted EXCEPT ![k] = TRUE]
     IN IF pc = "inflight" /\ k = attempt
        THEN /\ AfterCatch(AbortErrorValue(attempt), tm, ab,
                           Append(outcomes, Outcome("abort", 0, FALSE, "none", "none", FALSE, FALSE)),
                           console)
             /\ transport' = settle(transport, attempt)
             /\ fetchElapsed' = 0
        ELSE /\ timer' = tm
             /\ aborted' = ab
             /\ UNCHANGED <<pc, attempt, lastError, delayTimer, waited, fetchElapsed,
                            outcomes, result, transport, console>>

(* the backoff wait ends (line 251) and the fetch is issued (line 255); timers *)
(* run in the order they were armed, so an abort timer due at the same instant *)
(* fires first; fetch with a signal already aborted rejects at once            *)
DelayFire ==
  /\ pc = "backoff"
  /\ delayTimer = 0
  /\ timer[attempt] # 0
  /\ UNCHANGED <<fixed, req>>
  /\ fetchCount' = fetchCount + 1
  /\ waits' = Append(waits, waited)
  /\ requests' = Append(requests,
                        [url |-> req.requestUrl, at |-> attempt,
                         headers |-> requestHeaders(options.headers, req.authHeader)])
  /\ fetchElapsed' = 0
  /\ IF aborted[attempt]
     THEN /\ AfterCatch(AbortErrorValue(attempt), timer, aborted,
                        Append(outcomes, Outcome("abort", 0, FALSE, "none", "none", FALSE, FALSE)),
                        console)
          /\ UNCHANGED transport
     ELSE /\ pc' = "inflight"
          /\ transport' = issue(transport, attempt)
          /\ delayTimer' = -1
          /\ waited' = 0
          /\ UNCHANGED <<attempt, lastError, timer, aborted, outcomes, result, console>>

(* ------------------------------ the transport answers ----------------- *)
Fault(kind, at) ==
  IF kind = "TypeErrorNetwork" THEN TypeErrorNetwork(at)
  ELSE IF kind = "TypeErrorOther" THEN TypeErrorOther(at)
  ELSE NonErrorValue(at)

(* response.json() on a body: the parsed value, or a SyntaxError *)
jsonDecode(body) == IF body = "json" THEN "parsed" ELSE "SyntaxError"

(* lines 302-308: decoding of a success response; returns what was called *)
decodeSuccess(ctype, body) ==
  [jsonCalled |-> TRUE, textCalled |-> FALSE, data |-> jsonDecode(body)]

(* fetch resolves with a failure response (lines 255-300): the timer is *)
(* cleared, the body is read as text and the typed error is thrown       *)
RespondFailure(status, fault) ==
  /\ pc = "inflight"
  /\ ~ResponseOk(status)
  /\ UNCHANGED <<fixed, req, fetchCount, waits, requests>>
  /\ fetchElapsed' = 0
  /\ transport' = settle(transport, attempt)
  /\ LET tm == [timer EXCEPT ![attempt] = -1]   \* clearTimeout(timeoutId)
     IN IF fault = "none"
        THEN AfterCatch(
               GrafanaApiError(status, req.normalizedEndpoint, "Request failed",
                               errorTypeOf(status), FALSE, attempt),
               tm, aborted,
               Append(outcomes, Outcome("http", status, FALSE, "none", "none", FALSE, TRUE)),
               safeLog(console, "Request failed with status", status,
                       LogData({"endpoint", "status", "error"}, NoHeadersField),
                       options.enableLogging))   \* lines 288-292
        ELSE AfterCatch(Fault(fault, attempt), tm, aborted,
               Append(outcomes, Outcome("bodyfail", status, fault = "TypeErrorNetwork",
                                        "none", "none", FALSE, TRUE)),
               console)

(* fetch resolves with a success response (lines 255-270, 302-308) *)
RespondSuccess(status, ctype, body, fault) ==
  /\ pc = "inflight"
  /\ ResponseOk(status)
  /\ UNCHANGED <<fixed, req, fetchCount, waits, requests>>
  /\ fetchElapsed' = 0
  /\ transport' = settle(transport, attempt)
  /\ LET tm == [timer EXCEPT ![attempt] = -1]   \* clearTimeout(timeoutId)
         d == decodeSuccess(ctype, body)
     IN IF fault # "none"
        THEN AfterCatch(Fault(fault, attempt), tm, aborted,
               Append(outcomes, Outcome("bodyfail", status, fault = "TypeErrorNetwork",
                                        ctype, body, d.jsonCalled, d.textCalled)),
               console)
        ELSE IF d.data = "SyntaxError"
        THEN AfterCatch(SyntaxErrorValue(attempt), tm, aborted,
               Append(outcomes, Outcome("decode", status, FALSE, ctype, body,
                                        d.jsonCalled, d.textCalled)),
               console)
        ELSE /\ pc' = "done"
             /\ result' = Resolved(d.data)
             /\ timer' = tm
             /\ outcomes' = Append(outcomes, Outcome("ok", status, FALSE, ctype, body,
                                                     d.jsonCalled, d.textCalled))
             /\ console' = safeLog(console, "Request successful", -1,
                                   LogData({"endpoint"}, NoHeadersField),
                                   options.enableLogging)   \* line 306
             /\ UNCHANGED <<attempt, lastError, aborted, delayTimer, waited>>

(* fetch rejects: a network-layer fault or any other thrown value; the abort *)
(* timer is not cleared on this path                                          *)
FetchReject(kind) ==
  /\ pc = "inflight"
  /\ UNCHANGED <<fixed, req, fetchCount, waits, requests>>
  /\ fetchElapsed' = 0
  /\ transport' = settle(transport, attempt)
  /\ AfterCatch(Fault(kind, attempt), timer, aborted,
                Append(outcomes, Outcome("reject", 0, kind = "TypeErrorNetwork",
                                         "none", "none", FALSE, FALSE)),
                console)

Next ==
  \/ grafanaApiRequest
  \/ Tick
  \/ \E k \in AttemptIds : AbortFire(k)
  \/ DelayFire
  \/ \E s \in StatusValues, f \in BodyFaults : RespondFailure(s, f)
  \/ \E s \in StatusValues, c \in ContentTypes, b \in BodyKinds, f \in BodyFaults :
       RespondSuccess(s, c, b, f)
  \/ \E r \in RejectKinds : FetchReject(r)

Spec == Init /\ [][Next]_vars

(* timers fire, time passes and the call runs when it is made; nothing is   *)
(* assumed of the transport                                                  *)
Fairness ==
  /\ WF_vars(grafanaApiRequest)
  /\ WF_vars(Tick)
  /\ WF_vars(DelayFire)
  /\ \A k \in AttemptIds : WF_vars(AbortFire(k))

(* one call with at most two retries and timeouts and delays of 1 or 2 *)
InitLive ==
  /\ endpoint \in EndpointValues
  /\ options \in [timeoutMs : {1, 2}, maxRetries : {0, 1, 2},
                  baseRetryDelayMs : {1, 2},
                  enableLogging : {FALSE}, headers : {NoHeaders}]
  /\ env \in {PlainEnv, [PlainEnv EXCEPT !.GRAFANA_API_KEY = Unset]}
  /\ peer = <<>>
  /\ Start

SpecLive == InitLive /\ [][Next]_vars /\ Fairness

(* one call with one retry, over wide endpoints, wide process configuration *)
(* or wide caller headers with the logging toggle                            *)
InitConfig ==
  /\ \/ /\ endpoint \in WideEndpointValues
        /\ env = PlainEnv
        /\ options \in [timeoutMs : {2}, maxRetries : {1}, baseRetryDelayMs : {1},
                        enableLogging : {FALSE}, headers : {NoHeaders}]
     \/ /\ endpoint = EndpointArg(<<97>>)
        /\ env \in WideEnvValues
        /\ options \in [timeoutMs : {2}, maxRetries : {1}, baseRetryDelayMs : {1},
                        enableLogging : {FALSE}, headers : {NoHeaders}]
     \/ /\ endpoint = EndpointArg(<<97>>)
        /\ env = PlainEnv
        /\ options \in [timeoutMs : {2}, maxRetries : {1}, baseRetryDelayMs : {1},
                        enableLogging : BOOLEAN, headers : CallerHeaderValues]
  /\ peer = <<>>
  /\ Start

SpecConfig == InitConfig /\ [][Next]_vars

(* ------------------------------ two calls ----------------------------- *)
(* the locals and parameters of the running call (lines 200-220, 239-243,  *)
(* 310): what a call keeps while it is suspended at an await                *)
Self ==
  [endpoint |-> endpoint, options |-> options, pc |-> pc, req |-> req,
   attempt |-> attempt, lastError |-> lastError, timer |-> timer, aborted |-> aborted,
   delayTimer |-> delayTimer, waited |-> waited, fetchElapsed |-> fetchElapsed,
   fetchCount |-> fetchCount, waits |-> waits, outcomes |-> outcomes,
   result |-> result, requests |-> requests, transport |-> transport]

(* a call that has been made and has not run yet *)
NewCall(ep, opt) ==
  [endpoint |-> ep, options |-> opt, pc |-> "init", req |-> NoReq,
   attempt |-> 0, lastError |-> NullValue, timer |-> [k \in AttemptIds |-> -1],
   aborted |-> [k \in AttemptIds |-> FALSE],
   delayTimer |-> -1, waited |-> 0, fetchElapsed |-> 0,
   fetchCount |-> 0, waits |-> <<>>, outcomes |-> <<>>,
   result |-> Pending, requests |-> <<>>, transport |-> {}]

(* variant: the loop variable is shared by the calls of the process *)
Switch_SharedAttempt ==
  /\ peer # <<>>
  /\ peer' = Append(Tail(peer), Self)
  /\ endpoint' = Head(peer).endpoint
  /\ options' = Head(peer).options
  /\ pc' = Head(peer).pc
  /\ req' = Head(peer).req
  /\ attempt' = attempt
  /\ lastError' = Head(peer).lastError
  /\ timer' = Head(peer).timer
  /\ aborted' = Head(peer).aborted
  /\ delayTimer' = Head(peer).delayTimer
  /\ waited' = Head(peer).waited
  /\ fetchElapsed' = Head(peer).fetchElapsed
  /\ fetchCount' = Head(peer).fetchCount
  /\ waits' = Head(peer).waits
  /\ outcomes' = Head(peer).outcomes
  /\ result' = Head(peer).result
  /\ requests' = Head(peer).requests
  /\ transport' = Head(peer).transport
  /\ UNCHANGED <<env, console, flowVars>>

(* the running call is suspended at an await and another call of the process *)
(* runs; process.env and the console belong to the process                    *)
Switch ==
  /\ peer # <<>>
  /\ peer' = Append(Tail(peer), Self)
  /\ endpoint' = Head(peer).endpoint
  /\ options' = Head(peer).options
  /\ pc' = Head(peer).pc
  /\ req' = Head(peer).req
  /\ attempt' = Head(peer).attempt
  /\ lastError' = Head(peer).lastError
  /\ timer' = Head(peer).timer
  /\ aborted' = Head(peer).aborted
  /\ delayTimer' = Head(peer).delayTimer
  /\ waited' = Head(peer).waited
  /\ fetchElapsed' = Head(peer).fetchElapsed
  /\ fetchCount' = Head(peer).fetchCount
  /\ waits' = Head(peer).waits
  /\ outcomes' = Head(peer).outcomes
  /\ result' = Head(peer).result
  /\ requests' = Head(peer).requests
  /\ transport' = Head(peer).transport
  /\ UNCHANGED <<env, console, flowVars>>

(* two calls of one process: "a" with a timeout of 2 and "/a" with a timeout *)
(* of 1, each with one retry                                                  *)
InitTwo ==
  /\ endpoint = EndpointArg(<<97>>)
  /\ env = PlainEnv
  /\ options = [timeoutMs |-> 2, maxRetries |-> 1, baseRetryDelayMs |-> 1,
                enableLogging |-> FALSE, headers |-> NoHeaders]
  /\ peer = << NewCall(EndpointArg(<<SLASH, 97>>),
                       [timeoutMs |-> 1, maxRetries |-> 1, baseRetryDelayMs |-> 1,
                        enableLogging |-> FALSE, headers |-> NoHeaders]) >>
  /\ Start

NextTwo ==
  \/ grafanaApiRequest
  \/ Tick
  \/ \E k \in AttemptIds : AbortFire(k)
  \/ DelayFire
  \/ \E s \in StatusValues, f \in BodyFaults : RespondFailure(s, f)
  \/ \E s \in StatusValues, c \in ContentTypes, b \in BodyKinds, f \in BodyFaults :
       RespondSuccess(s, c, b, f)
  \/ \E r \in RejectKinds : FetchReject(r)
  \/ Switch

SpecTwo == InitTwo /\ [][NextTwo]_vars

(* ------------------------------ safeLog on its own -------------------- *)
(* data records: no headers field, or headers with keys spelling            *)
(* Authorization in three letter cases or X-Custom, valued "secret" or ""   *)
LogHeaderKeys ==
  { AuthorizationKey, HeaderKey("authorization", "authorization"),
    HeaderKey("AUTHORIZATION", "authorization"), HeaderKey("X-Custom", "x-custom") }
LogHeaderValues ==
  { h \in Strings([key : LogHeaderKeys, value : {TextValue("secret"), TextValue("")}],
                  MaxHeaders) :
      \A i, j \in 1 .. Len(h) : i # j => h[i].key # h[j].key }
LogDataValues ==
  {LogData({"url"}, NoHeadersField)} \cup
  {LogData({"url"}, HeadersField(h)) : h \in LogHeaderValues}

(* safeLog(message, data, enableLogging) is called *)
safeLogCall(data) ==
  /\ Len(console) < MaxLogLines
  /\ console' = safeLog(console, "message", -1, data, options.enableLogging)
  /\ UNCHANGED <<fixed, pc, req, attempt, lastError, timer, aborted, delayTimer, waited,
                 fetchElapsed, fetchCount, waits, outcomes, result, requests, transport>>

InitLog ==
  /\ endpoint = EndpointArg(<<97>>)
  /\ env = PlainEnv
  /\ options \in [timeoutMs : {2}, maxRetries : {1}, baseRetryDelayMs : {1},
                  enableLogging : BOOLEAN, headers : {NoHeaders}]
  /\ peer = <<>>
  /\ Start

NextLog == \E d \in LogDataValues : safeLogCall(d)

SpecLog == InitLog /\ [][NextLog]_vars

TypeOK ==
  /\ pc \in {"init", "backoff", "inflight", "done"}
  /\ attempt \in AttemptIds
  /\ fetchCount \in 0 .. (MaxRetriesBound + 2)
  /\ delayTimer \in (-1) .. retryDelay(MaxBaseDelay, MaxRetriesBound + 1)
  /\ \A k \in AttemptIds : timer[k] \in (-1) .. MaxTimeout

(* ------------------------------ the tools (tools.ts) ------------------ *)
(* what grafanaApiRequest resolves with: an array of n items, a dashboard   *)
(* document whose requested panel is absent, has no targets or is complete, *)
(* or another object                                                        *)
NoValue == [shape |-> "none", n |-> 0, panel |-> "none"]
ArrayValue(n) == [shape |-> "array", n |-> n, panel |-> "none"]
DashboardValue(panel) == [shape |-> "dashboard", n |-> 0, panel |-> panel]
ObjectValue == [shape |-> "object", n |-> 0, panel |-> "none"]
ApiValues ==
  {ArrayValue(0), ArrayValue(1), ObjectValue} \cup
  {DashboardValue(p) : p \in {"absent", "notargets", "ok"}}

ToolPending == [kind |-> "pending", value |-> NoValue, error |-> NullValue]
ToolResolved(v) == [kind |-> "value", value |-> v, error |-> NullValue]
ToolRejected(e) == [kind |-> "error", value |-> NoValue, error |-> e]

(* what grafanaApiRequest rejects with when a tool calls it with its        *)
(* default options: a typed error for each failure response, the wrapped    *)
(* faults of an attempt, and the configuration errors                       *)
ApiThrown ==
  {GrafanaApiError(st, <<97>>, "Request failed", errorTypeOf(st), FALSE, 0) :
     st \in {x \in StatusValues : ~ResponseOk(x)}} \cup
  {outerCatch(wrapCaught(x, <<97>>, 0, 30000), <<97>>) :
     x \in {AbortErrorValue(0), TypeErrorNetwork(0), TypeErrorOther(0),
            SyntaxErrorValue(0), NonErrorValue(0)}} \cup
  {outerCatch(validateEnvironment([PlainEnv EXCEPT !.GRAFANA_API_KEY = Unset]).error, <<97>>),
   outerCatch(validateEnvironment([PlainEnv EXCEPT !.GRAFANA_URL = Unset]).error, <<97>>)}

(* an error that is not a GrafanaApiError, as a replaced grafanaApiRequest  *)
(* may throw                                                                *)
UntypedError == PlainError("thrown", FALSE, -1)

ApiResults ==
  {ToolResolved(v) : v \in ApiValues} \cup
  {ToolRejected(e) : e \in ApiThrown \cup {UntypedError}}

ToolNames ==
  {"listDatasources", "listDashboards", "queryDatasource", "getDashboard",
   "getDashboardPanelData"}

(* the endpoint of the first request of each tool (lines 40, 135, 193, 276, 375) *)
FirstEndpoint(tool) ==
  IF tool = "listDatasources" THEN "/api/datasources"
  ELSE IF tool = "listDashboards" THEN "/api/search"
  ELSE IF tool = "queryDatasource" THEN "/api/ds/query"
  ELSE "/api/dashboards/uid/"

(* lines 37-62: datasources.map(...) of an array; every failure gives [] *)
listDatasources(r) ==
  IF r.kind = "error" THEN ToolResolved(ArrayValue(0))
  ELSE IF r.value.shape # "array" THEN ToolResolved(ArrayValue(0))
  ELSE ToolResolved(r.value)

(* lines 183-221 *)
listDashboards(r) ==
  IF r.kind = "error" THEN ToolResolved(ArrayValue(0))
  ELSE IF r.value.shape # "array" THEN ToolResolved(ArrayValue(0))
  ELSE ToolResolved(r.value)

(* variant: the failure is reported by a new error *)
queryDatasource_Wrap(r) ==
  IF r.kind = "error" THEN ToolRejected(PlainError("Failed to query", FALSE, -1))
  ELSE ToolResolved(r.value)

(* lines 134-149: result.results, or the caught error thrown again *)
queryDatasource(r) ==
  IF r.kind = "error" THEN ToolRejected(r.error)
  ELSE ToolResolved(r.value)

(* lines 273-340: reading response.dashboard.uid of a value without a       *)
(* dashboard is a TypeError                                                 *)
getDashboard(r) ==
  IF r.kind = "error" THEN ToolRejected(r.error)
  ELSE IF r.value.shape # "dashboard" THEN ToolRejected(TypeErrorOther(-1))
  ELSE ToolResolved(r.value)

(* variant: a panel without targets is queried with no queries *)
afterDashboardFetch_QueryAnyway(r) ==
  IF r.kind = "error" THEN ToolRejected(r.error)
  ELSE IF r.value.shape # "dashboard" THEN ToolRejected(TypeErrorOther(-1))
  ELSE IF r.value.panel = "absent"
  THEN ToolRejected(PlainError("Panel not found", FALSE, -1))
  ELSE ToolPending

(* getDashboardPanelData, lines 373-410 and 468-475: from the dashboard     *)
(* response to the throw or, still pending, to the data query               *)
afterDashboardFetch(r) ==
  IF r.kind = "error" THEN ToolRejected(r.error)
  ELSE IF r.value.shape # "dashboard" THEN ToolRejected(TypeErrorOther(-1))
  ELSE IF r.value.panel = "absent"
  THEN ToolRejected(PlainError("Panel not found", FALSE, -1))
  ELSE IF r.value.panel = "notargets"
  THEN ToolRejected(PlainError("No targets found", FALSE, -1))
  ELSE ToolPending

(* getDashboardPanelData, lines 461-475 *)
afterDataQuery(r) ==
  IF r.kind = "error" THEN ToolRejected(r.error)
  ELSE ToolResolved(r.value)

(* the handler of a tool with one request, applied to the request's result *)
toolHandler(tool, r) ==
  IF tool = "listDatasources" THEN listDatasources(r)
  ELSE IF tool = "listDashboards" THEN listDashboards(r)
  ELSE IF tool = "queryDatasource" THEN queryDatasource(r)
  ELSE getDashboard(r)

(* a tool is run: it calls grafanaApiRequest and awaits it *)
toolCall(tool) ==
  /\ toolRun.pc \in {"idle", "done"}
  /\ toolRun' = [tool |-> tool, pc |-> "request1",
                 apiRequests |-> <<FirstEndpoint(tool)>>, apiResults |-> <<>>,
                 outcome |-> ToolPending]
  /\ UNCHANGED <<apiVars, clock, dashboardsCache, dashboardsCacheExpiry, flow>>

(* the awaited grafanaApiRequest call settles with r *)
toolApiSettles(r) ==
  /\ toolRun.pc \in {"request1", "request2"}
  /\ LET seen == Append(toolRun.apiResults, r)
         o == IF toolRun.tool # "getDashboardPanelData" THEN toolHandler(toolRun.tool, r)
              ELSE IF toolRun.pc = "request1" THEN afterDashboardFetch(r)
              ELSE afterDataQuery(r)
     IN IF o.kind = "pending"
        THEN toolRun' = [toolRun EXCEPT !.pc = "request2", !.apiResults = seen,
                                        !.apiRequests = Append(@, "/api/ds/query")]
        ELSE toolRun' = [toolRun EXCEPT !.pc = "done", !.apiResults = seen,
                                        !.outcome = o]
  /\ UNCHANGED <<apiVars, clock, dashboardsCache, dashboardsCacheExpiry, flow>>

(* no call of grafanaApiRequest is followed; its results are drawn *)
ApiQuiet ==
  /\ endpoint = EndpointArg(<<97>>)
  /\ env = PlainEnv
  /\ options = [timeoutMs |-> 2, maxRetries |-> 1, baseRetryDelayMs |-> 1,
                enableLogging |-> FALSE, headers |-> NoHeaders]
  /\ peer = <<>>

InitTools == ApiQuiet /\ Start

NextTools ==
  \/ \E t \in ToolNames : toolCall(t)
  \/ \E r \in ApiResults : toolApiSettles(r)

SpecTools == InitTools /\ [][NextTools]_vars

(* ------------------------------ user-facing messages ----------------- *)
(* constants.ts ERROR_MESSAGES and the literals of getPanelData *)
AUTH_ERROR == "I couldn't access your Grafana instance due to authentication issues. Please check your API key."
NOT_FOUND_ERROR == "The requested resource was not found in your Grafana instance."
SERVER_ERROR == "Your Grafana instance is experiencing server issues. Please try again later."
GENERAL_ERROR == "I encountered an error while trying to query your Grafana instance."
PANEL_NOT_FOUND_ERROR == "The requested dashboard or panel was not found in your Grafana instance."
PANEL_GENERAL_ERROR == "I encountered an error while trying to get data from the dashboard panel."

(* 'statusCode' in error: the value is an object with that property *)
HasStatusCode(error) == error.cls = "GrafanaApiError"

(* utils.ts lines 100-118 *)
getErrorMessage(error) ==
  IF HasStatusCode(error) /\ (error.statusCode = 401 \/ error.statusCode = 403)
  THEN AUTH_ERROR
  ELSE IF HasStatusCode(error) /\ error.statusCode = 404 THEN NOT_FOUND_ERROR
  ELSE IF HasStatusCode(error) /\ error.statusCode >= 500 THEN SERVER_ERROR
  ELSE GENERAL_ERROR

(* grafanaFlow.ts lines 292-305: the message getPanelData picks in its catch *)
panelDataErrorMessage(error) ==
  IF error.cls # "GrafanaApiError" THEN PANEL_GENERAL_ERROR
  ELSE IF error.statusCode = 401 \/ error.statusCode = 403 THEN AUTH_ERROR
  ELSE IF error.statusCode = 404 THEN PANEL_NOT_FOUND_ERROR
  ELSE IF error.statusCode >= 500 THEN SERVER_ERROR
  ELSE PANEL_GENERAL_ERROR

(* ------------------------------ the flow (grafanaFlow.ts) ------------- *)
(* the cache lives for 5 minutes; the clock counts in units of 2.5 minutes *)
CACHE_TTL_MS == 2

FROM == "now-1h"
TO == "now"
NO_DASHBOARDS == "I couldn't find any dashboards in your Grafana instance."
NO_SELECTION == "I couldn't determine which dashboard panel would best answer your question."
NO_PANEL_DATA == "I was able to find the dashboard panel, but it returned no data."

(* JavaScript truthiness of an optional string and of an optional number *)
TruthyString(o) == o.set /\ o.val # ""
TruthyNumber(o) == o.set /\ o.val # 0
OrElse(o, d) == IF TruthyString(o) THEN o.val ELSE d

(* what the awaited ai.generate of the analysis gives: it throws, its      *)
(* output is null, or its output is an object of the schema                *)
AnalysisOutputs ==
  {[NoOutput EXCEPT !.kind = "throws"], [NoOutput EXCEPT !.kind = "null"]} \cup
  [kind : {"output"}, requiresDashboardData : BOOLEAN,
   directAnswer : {NoString, Some(""), Some("It is a dashboard tool.")},
   dashboardUid : {NoString, Some(""), Some("d")},
   panelId : {NoNumber, Some(0), Some(1)},
   from : {NoString, Some("now-6h")},
   to : {NoString, Some("now-5m")}]

(* what the awaited ai.generate of the selection gives *)
SelectionOutputs ==
  {[NoOutput EXCEPT !.kind = "throws"], [NoOutput EXCEPT !.kind = "null"]} \cup
  [kind : {"output"}, requiresDashboardData : {FALSE}, directAnswer : {NoString},
   dashboardUid : {Some("d")}, panelId : {Some(0), Some(1)},
   from : {NoString, Some("now-6h")}, to : {NoString}]

(* what getDashboardPanelData.run settles with: the outcomes of the tool,  *)
(* and no result                                                           *)
PanelDataOutcomes ==
  {o \in {afterDashboardFetch(r) : r \in ApiResults} : o.kind # "pending"} \cup
  {afterDataQuery(r) : r \in ApiResults} \cup {ToolResolved(NoValue)}

(* what the stream and the response of generateStream give: n chunks, then *)
(* the final text or a rejection                                           *)
StreamOutcomes ==
  [kind : {"text", "throws"}, chunks : {0, 1}, text : {"", "final"}]

(* the result of analyzeQuestion without the direct answer *)
RequiresData(o) ==
  [o EXCEPT !.kind = "output", !.requiresDashboardData = TRUE, !.directAnswer = NoString]
RequiresDataOnly ==
  [NoOutput EXCEPT !.kind = "output", !.requiresDashboardData = TRUE]

(* variant: a negative flag is returned as it is *)
analyzeQuestion_TrustFlag(out) ==
  IF out.kind # "output" THEN RequiresDataOnly
  ELSE IF ~out.requiresDashboardData
  THEN [NoOutput EXCEPT !.kind = "output", !.directAnswer = out.directAnswer]
  ELSE IF TruthyString(out.dashboardUid) /\ TruthyNumber(out.panelId)
  THEN RequiresData(out)
  ELSE RequiresDataOnly

(* lines 364-458: what analyzeQuestion returns for the model's output *)
analyzeQuestion(out) ==
  IF out.kind # "output" THEN RequiresDataOnly
  ELSE IF ~out.requiresDashboardData
  THEN IF TruthyString(out.directAnswer)
       THEN [NoOutput EXCEPT !.kind = "output", !.directAnswer = out.directAnswer]
       ELSE RequiresDataOnly
  ELSE IF TruthyString(out.dashboardUid) /\ TruthyNumber(out.panelId)
  THEN RequiresData(out)
  ELSE RequiresDataOnly

(* line 130 *)
cacheValid(cache, now, expiry) == cache.present /\ now < expiry

(* variant: the lifetime starts when the list arrives *)
cacheExpiry_FromArrival(now, arrival) == arrival + CACHE_TTL_MS

(* line 152, now being the time read at line 129 *)
cacheExpiry(now, arrival) == now + CACHE_TTL_MS

(* variant: no result counts as data *)
getPanelData_NoCheck(o) ==
  IF o.kind = "error"
  THEN [success |-> FALSE, message |-> panelDataErrorMessage(o.error)]
  ELSE [success |-> TRUE, message |-> "Panel data retrieved successfully"]

(* lines 265-310: what getPanelData returns for the tool's outcome *)
getPanelData(o) ==
  IF o.kind = "error"
  THEN [success |-> FALSE, message |-> panelDataErrorMessage(o.error)]
  ELSE IF o.value.shape = "none"
  THEN [success |-> FALSE, message |-> NO_PANEL_DATA]
  ELSE [success |-> TRUE, message |-> "Panel data retrieved successfully"]

Step(call, fail) == [call |-> call, fail |-> fail]

(* the step being awaited has settled with this failure, or with none *)
settled(fl, fail) == [fl EXCEPT !.steps[Len(fl.steps)].fail = fail]

(* a step reports a failure: the message is sent and is the answer *)
failWith(fl, message) ==
  [fl EXCEPT !.pc = "done", !.chunks = Append(@, message), !.answer = Some(message)]

(* getPanelData is entered: getDashboardPanelData.run(panelParams) is awaited *)
callPanelData(fl, params) ==
  [fl EXCEPT !.pc = "panelData", !.panelParams = params,
             !.steps = Append(@, Step("getDashboardPanelData", "pending"))]

(* lines 127-147: discoverDashboards up to its await, then, when the cache *)
(* answers, lines 131-143 and the entry of selectDashboardPanel            *)
discoverDashboards(fl) ==
  LET seen == [kind |-> "cached", now |-> clock,
               sawCache |-> dashboardsCache.present, sawExpiry |-> dashboardsCacheExpiry,
               issuedAt |-> dashboardsCache.issuedAt, failed |-> dashboardsCache.failed]
  IN IF cacheValid(dashboardsCache, clock, dashboardsCacheExpiry)
     THEN IF dashboardsCache.len = 0
          THEN failWith([fl EXCEPT !.discovery = seen,
                                   !.steps = Append(@, Step("dashboardsCache", "empty"))],
                        NO_DASHBOARDS)
          ELSE [fl EXCEPT !.pc = "selection", !.discovery = seen,
                          !.steps = @ \o <<Step("dashboardsCache", "none"),
                                           Step("selectDashboardPanel", "pending")>>]
     ELSE [fl EXCEPT !.pc = "listing",
                     !.discovery = [seen EXCEPT !.kind = "listed", !.issuedAt = clock,
                                                !.failed = FALSE],
                     !.steps = Append(@, Step("listDashboards", "pending"))]

(* lines 39-50: a question arrives and the analysis is awaited *)
grafanaFlow(f) ==
  /\ flow[f].pc \in {"idle", "done"}
  /\ flow' = [flow EXCEPT ![f] =
        [IdleFlow EXCEPT !.pc = "analysis",
                         !.steps = <<Step("analyzeQuestion", "pending")>>]]
  /\ UNCHANGED <<apiVars, clock, dashboardsCache, dashboardsCacheExpiry, toolRun>>

(* the analysis settles: the rest of analyzeQuestion, then lines 53-85 *)
analysisSettles(f, out) ==
  /\ flow[f].pc = "analysis"
  /\ LET a == analyzeQuestion(out)
         fl == [settled(flow[f], IF out.kind = "output" THEN "none" ELSE out.kind)
                  EXCEPT !.output = out,
                         !.chunks = IF a.requiresDashboardData THEN @
                                    ELSE Append(@, a.directAnswer.val)]
     IN flow' = [flow EXCEPT ![f] =
          IF ~a.requiresDashboardData
          THEN [fl EXCEPT !.pc = "done", !.answer = Some(OrElse(a.directAnswer, ""))]
          ELSE IF TruthyString(a.dashboardUid) /\ TruthyNumber(a.panelId)
          THEN callPanelData(fl, [dashboardUid |-> a.dashboardUid.val,
                                  panelId |-> a.panelId.val,
                                  from |-> OrElse(a.from, FROM),
                                  to |-> OrElse(a.to, TO)])
          ELSE discoverDashboards(fl)]
  /\ UNCHANGED <<apiVars, clock, dashboardsCache, dashboardsCacheExpiry, toolRun>>

(* listDashboards.run settles, the tool having received r from               *)
(* grafanaApiRequest: lines 148-166, then lines 86-91 and the entry of      *)
(* selectDashboardPanel                                                     *)
listSettles(f, r) ==
  /\ flow[f].pc = "listing"
  /\ LET list == listDashboards(r).value
         bad == r.kind = "error" \/ r.value.shape # "array"
         fl == [flow[f] EXCEPT !.discovery.failed = bad]
     IN /\ dashboardsCache' = [present |-> TRUE, len |-> list.n,
                               issuedAt |-> fl.discovery.now, failed |-> bad]
        /\ dashboardsCacheExpiry' = cacheExpiry(fl.discovery.now, clock)
        /\ flow' = [flow EXCEPT ![f] =
             IF list.n = 0
             THEN failWith(settled(fl, "empty"), NO_DASHBOARDS)
             ELSE [settled(fl, "none") EXCEPT
                     !.pc = "selection",
                     !.steps = Append(@, Step("selectDashboardPanel", "pending"))]]
  /\ UNCHANGED <<apiVars, clock, toolRun>>

(* the selection's ai.generate settles: lines 219-255, then lines 92-97 *)
selectionSettles(f, out) ==
  /\ flow[f].pc = "selection"
  /\ flow' = [flow EXCEPT ![f] =
       IF out.kind = "throws"
       THEN failWith(settled(flow[f], "throws"), getErrorMessage(UntypedError))
       ELSE IF out.kind = "null"
       THEN failWith(settled(flow[f], "null"), NO_SELECTION)
       ELSE callPanelData(settled(flow[f], "none"),
                          [dashboardUid |-> out.dashboardUid.val,
                           panelId |-> out.panelId.val,
                           from |-> IF out.from.set THEN out.from.val ELSE FROM,
                           to |-> IF out.to.set THEN out.to.val ELSE TO])]
  /\ UNCHANGED <<apiVars, clock, dashboardsCache, dashboardsCacheExpiry, toolRun>>

(* getDashboardPanelData.run settles: lines 283-309, then lines 73-76 or    *)
(* 98-103 and the entry of interpretResults                                 *)
panelDataSettles(f, o) ==
  /\ flow[f].pc = "panelData"
  /\ LET fail == IF o.kind = "error" THEN "throws"
                 ELSE IF o.value.shape = "none" THEN "null" ELSE "none"
         fl == settled(flow[f], fail)
         res == getPanelData(o)
     IN flow' = [flow EXCEPT ![f] =
          IF ~res.success
          THEN failWith(fl, res.message)
          ELSE [fl EXCEPT !.pc = "interpretation",
                          !.steps = Append(@, Step("generateStream", "pending"))]]
  /\ UNCHANGED <<apiVars, clock, dashboardsCache, dashboardsCacheExpiry, toolRun>>

(* the stream and the response of generateStream: lines 336-354 *)
interpretSettles(f, out) ==
  /\ flow[f].pc = "interpretation"
  /\ LET sent == flow[f].chunks \o [i \in 1 .. out.chunks |-> "chunk"]
         fullResponse == IF out.chunks = 0 THEN "" ELSE "chunk"
     IN flow' = [flow EXCEPT ![f] =
          IF out.kind = "throws"
          THEN failWith([settled(flow[f], "throws") EXCEPT !.chunks = sent],
                        getErrorMessage(UntypedError))
          ELSE [settled(flow[f], "none") EXCEPT
                  !.pc = "done", !.chunks = sent,
                  !.answer = Some(IF out.text # "" THEN out.text ELSE fullResponse)]]
  /\ UNCHANGED <<apiVars, clock, dashboardsCache, dashboardsCacheExpiry, toolRun>>

(* time passes *)
FlowTick ==
  /\ clock < MaxClock
  /\ clock' = clock + 1
  /\ UNCHANGED <<apiVars, dashboardsCache, dashboardsCacheExpiry, flow, toolRun>>

InitFlow == ApiQuiet /\ Start

(* one question at a time *)
NextFlow ==
  \/ grafanaFlow(1)
  \/ \E out \in AnalysisOutputs : analysisSettles(1, out)
  \/ \E r \in ApiResults : listSettles(1, r)
  \/ \E out \in SelectionOutputs : selectionSettles(1, out)
  \/ \E o \in PanelDataOutcomes : panelDataSettles(1, o)
  \/ \E out \in StreamOutcomes : interpretSettles(1, out)
  \/ FlowTick

SpecFlow == InitFlow /\ [][NextFlow]_vars

(* questions arriving while others are being answered, each needing the     *)
(* dashboards and ending with the selection                                 *)
NextCache ==
  \/ \E f \in 1 .. MaxFlows : grafanaFlow(f)
  \/ \E f \in 1 .. MaxFlows : analysisSettles(f, [NoOutput EXCEPT !.kind = "null"])
  \/ \E f \in 1 .. MaxFlows :
       \E r \in {ToolResolved(ArrayValue(0)), ToolResolved(ArrayValue(1)),
                  ToolRejected(UntypedError)} : listSettles(f, r)
  \/ \E f \in 1 .. MaxFlows : selectionSettles(f, [NoOutput EXCEPT !.kind = "null"])
  \/ FlowTick

SpecCache == InitFlow /\ [][NextCache]_vars

(* ====================================================================== *)
(* Properties                                                             *)
(* ====================================================================== *)
Last(q) == q[Len(q)]
Settled == pc = "done"
ValidEndpoint == endpoint.isString /\ endpoint.val # <<>>
UrlConfigured == Truthy(EnvTrim(env.GRAFANA_URL))
HttpFailure(o) == o.kind = "http"
RetryStatus(status) == status >= 500 \/ status = 429

(* C1: an attempt numbered below maxRetries that ends by its timeout is      *)
(* followed by a further attempt, so a TIMEOUT error reaches the caller only *)
(* when it was produced by the attempt numbered maxRetries.                  *)
C1_TimeoutRetried ==
  (Settled /\ result.kind = "error" /\ result.error.type = TIMEOUT)
    => result.error.at = options.maxRetries

(* C2: an attempt numbered below maxRetries that fails with a network-layer  *)
(* fault (TypeError whose message contains 'network') is followed by a       *)
(* further attempt; [network fault, 200] with maxRetries >= 1 succeeds after *)
(* exactly 2 transport invocations.                                          *)
C2_NetworkFaultRetried ==
  Settled =>
    \A i \in 1 .. Len(outcomes) :
      (outcomes[i].kind = "reject" /\ outcomes[i].net /\ outcomes[i].at < options.maxRetries)
        => (i < Len(outcomes) /\ fetchCount >= i + 1)

(* C3: after an HTTP failure response received on an attempt numbered below  *)
(* maxRetries another attempt is made if and only if the status is >= 500 or *)
(* 429; any other failure status ends the call with no further transport     *)
(* invocation; a 429 followed by a 200 succeeds after exactly 2 invocations. *)
C3_HttpRetryPolicy ==
  /\ \A i \in 1 .. Len(outcomes) :
       (HttpFailure(outcomes[i]) /\ outcomes[i].at < options.maxRetries) =>
         /\ (attempt > outcomes[i].at) <=> RetryStatus(outcomes[i].status)
         /\ ~RetryStatus(outcomes[i].status) =>
              (Settled /\ fetchCount = outcomes[i].at + 1 /\ result.kind = "error")
  /\ (Settled /\ Len(outcomes) = 2 /\ HttpFailure(outcomes[1]) /\ outcomes[1].status = 429
        /\ outcomes[2].kind = "ok")
       => (result.kind = "value" /\ fetchCount = 2)

C3_Witness ==
  /\ Settled /\ Len(outcomes) = 2 /\ fetchCount = 2
  /\ HttpFailure(outcomes[1]) /\ outcomes[1].status = 429
  /\ outcomes[2].kind = "ok" /\ result.kind = "value"

(* C4: for maxRetries >= 0 a call makes at most maxRetries + 1 transport     *)
(* invocations; when every attempt ended in a retryable failure it made      *)
(* exactly maxRetries + 1 and rejects with the error of the final attempt    *)
(* (its status, kind SERVER for a 5xx), never an earlier attempt's error.    *)
C4_AttemptBound ==
  /\ options.maxRetries >= 0 => (fetchCount <= options.maxRetries + 1
                                  /\ Len(outcomes) <= options.maxRetries + 1)
  /\ (Settled /\ options.maxRetries >= 0 /\ outcomes # <<>>
        /\ \A i \in 1 .. Len(outcomes) :
             HttpFailure(outcomes[i]) /\ RetryStatus(outcomes[i].status))
       => /\ fetchCount = options.maxRetries + 1
          /\ result.kind = "error"
          /\ result.error.cls = "GrafanaApiError"
          /\ result.error.at = options.maxRetries
          /\ result.error.statusCode = Last(outcomes).status
          /\ result.error.type = IF Last(outcomes).status >= 500 THEN SERVER ELSE UNKNOWN

C4_Witness ==
  /\ Settled /\ options.maxRetries = 2 /\ fetchCount = 3
  /\ Len(outcomes) = 3
  /\ outcomes[1].status = 500 /\ outcomes[2].status = 429 /\ outcomes[3].status = 503
  /\ \A i \in 1 .. 3 : HttpFailure(outcomes[i])
  /\ result.kind = "error" /\ result.error.statusCode = 503 /\ result.error.type = SERVER

(* C5: no wait precedes the fetch of attempt 0 and the wait that precedes    *)
(* the fetch of attempt k >= 1 is exactly baseRetryDelayMs * 2^(k-1); with   *)
(* responses [500, 500, 200] and maxRetries = 2 the transport is invoked     *)
(* exactly 3 times, after waits 0, base and 2 * base, and the call succeeds. *)
C5_ExponentialBackoff ==
  /\ \A i \in 1 .. Len(waits) :
       waits[i] = IF i = 1 THEN 0 ELSE options.baseRetryDelayMs * Pow2(i - 2)
  /\ (Settled /\ options.maxRetries = 2 /\ Len(outcomes) = 3
        /\ HttpFailure(outcomes[1]) /\ outcomes[1].status = 500
        /\ HttpFailure(outcomes[2]) /\ outcomes[2].status = 500
        /\ outcomes[3].kind = "ok")
       => /\ fetchCount = 3
          /\ waits = <<0, options.baseRetryDelayMs, 2 * options.baseRetryDelayMs>>
          /\ result.kind = "value"

C5_Witness ==
  /\ Settled /\ options.maxRetries = 2 /\ options.baseRetryDelayMs = 2 /\ options.timeoutMs = 5
  /\ Len(outcomes) = 3
  /\ HttpFailure(outcomes[1]) /\ outcomes[1].status = 500
  /\ HttpFailure(outcomes[2]) /\ outcomes[2].status = 500
  /\ outcomes[3].kind = "ok" /\ outcomes[3].status = 200
  /\ waits = <<0, 2, 4>> /\ fetchCount = 3 /\ result.kind = "value"

(* C6: every attempt, retries included, gives its network call the full      *)
(* timeoutMs: an attempt is never ended by its abort earlier than timeoutMs  *)
(* after its fetch was issued.                                               *)
C6_FullTimeoutWindow ==
  \A i \in 1 .. Len(outcomes) :
    outcomes[i].kind = "abort" => outcomes[i].elapsed >= options.timeoutMs

(* C7: with a valid endpoint and a configured base URL every rejection is a  *)
(* GrafanaApiError with a kind of the enumeration, a numeric statusCode and  *)
(* an endpoint string; no unclassified exception escapes.                    *)
C7_TypedErrorsOnly ==
  (Settled /\ result.kind = "error" /\ ValidEndpoint /\ UrlConfigured)
    => /\ result.error.cls = "GrafanaApiError"
       /\ result.error.type \in GrafanaErrorType
       /\ result.error.statusCode \in Nat
       /\ result.error.endpoint \in {req.normalizedEndpoint, AuthenticationMarker}

C7_Witness ==
  /\ Settled /\ ValidEndpoint /\ UrlConfigured
  /\ outcomes # <<>> /\ Last(outcomes).kind = "reject" /\ ~Last(outcomes).net
  /\ lastError.cls # "GrafanaApiError"
  /\ result.kind = "error" /\ result.error.cls = "GrafanaApiError"
  /\ result.error.type = UNKNOWN

(* C8: when GRAFANA_URL is unset or empty after trimming the call fails with *)
(* a plain configuration error that is not a GrafanaApiError (no kind, no    *)
(* statusCode), without any transport invocation and without retry.          *)
C8_PlainConfigurationError ==
  (Settled /\ ValidEndpoint /\ ~UrlConfigured)
    => /\ result.kind = "error"
       /\ result.error.cls = "Error"
       /\ result.error.type = NoType
       /\ result.error.statusCode = -1
       /\ fetchCount = 0
       /\ attempt = 0

(* C9: the error built for an HTTP failure status s has statusCode s and     *)
(* kind AUTHENTICATION for 401, AUTHORIZATION for 403, NOT_FOUND for 404,    *)
(* VALIDATION for 400 and 422, SERVER for s >= 500, UNKNOWN otherwise        *)
(* (429 included).                                                           *)
C9_StatusClassification ==
  (outcomes # <<>> /\ HttpFailure(Last(outcomes))) =>
    LET s == Last(outcomes).status
    IN /\ lastError.cls = "GrafanaApiError"
       /\ lastError.statusCode = s
       /\ lastError.type =
            CASE s = 401 -> AUTHENTICATION
              [] s = 403 -> AUTHORIZATION
              [] s = 404 -> NOT_FOUND
              [] s \in {400, 422} -> VALIDATION
              [] s >= 500 -> SERVER
              [] OTHER -> UNKNOWN

C9_Witness ==
  /\ outcomes # <<>> /\ HttpFailure(Last(outcomes))
  /\ Last(outcomes).status = 422
  /\ lastError.statusCode = 422 /\ lastError.type = VALIDATION

(* C10: a success response is decoded by its declared content type: a JSON   *)
(* content type is parsed as JSON, any other content type resolves to the    *)
(* raw text without JSON parsing being attempted.                            *)
C10_DecodeByContentType ==
  (outcomes # <<>> /\ Last(outcomes).kind \in {"ok", "decode"}) =>
    IF Last(outcomes).ctype = "application/json"
    THEN Last(outcomes).jsonCalled
    ELSE /\ ~Last(outcomes).jsonCalled
         /\ Last(outcomes).textCalled
         /\ result = Resolved("rawText")

(* C11: when the body of a success (2xx) response fails to decode, the call  *)
(* makes no further transport invocation, whatever maxRetries and the        *)
(* attempt number are, and the failure is surfaced to the caller.            *)
DecodeFailure(o) ==
  o.kind = "decode" \/ (o.kind = "bodyfail" /\ ResponseOk(o.status))

C11_DecodeFailureNotRetried ==
  \A i \in 1 .. Len(outcomes) :
    DecodeFailure(outcomes[i]) =>
      /\ i = Len(outcomes)
      /\ Settled
      /\ fetchCount = i
      /\ attempt = outcomes[i].at
      /\ result.kind = "error"
      /\ result.error.at = outcomes[i].at

C11_Witness ==
  /\ Settled /\ options.maxRetries = 2 /\ Len(outcomes) = 2
  /\ HttpFailure(outcomes[1]) /\ outcomes[2].kind = "decode"
  /\ fetchCount = 2 /\ result.kind = "error"

(* C12: with a valid endpoint and a configured base URL, when no credentials *)
(* are configured (no non-empty token, and not both username and password)   *)
(* the call fails with GrafanaApiError 401, kind AUTHENTICATION, endpoint    *)
(* marker "authentication", with zero transport invocations and no retry,    *)
(* for every maxRetries.                                                     *)
NoCredentials ==
  /\ ~Truthy(EnvTrim(env.GRAFANA_API_KEY))
  /\ ~(Truthy(EnvTrim(env.GRAFANA_USERNAME)) /\ Truthy(EnvTrim(env.GRAFANA_PASSWORD)))

C12_MissingCredentials ==
  (ValidEndpoint /\ UrlConfigured /\ NoCredentials) =>
    /\ pc \in {"init", "done"}
    /\ fetchCount = 0 /\ attempt = 0 /\ outcomes = <<>> /\ waits = <<>>
    /\ Settled =>
         /\ result.kind = "error"
         /\ result.error.cls = "GrafanaApiError"
         /\ result.error.statusCode = 401
         /\ result.error.type = AUTHENTICATION
         /\ result.error.endpoint = AuthenticationMarker

C12_Witness ==
  /\ Settled /\ ValidEndpoint /\ UrlConfigured /\ NoCredentials
  /\ env.GRAFANA_USERNAME.set /\ options.maxRetries = 2
  /\ result.kind = "error" /\ result.error.statusCode = 401 /\ fetchCount = 0

(* C14: an endpoint that is empty or not a string fails with the plain error *)
(* 'Endpoint must be a non-empty string' (not a GrafanaApiError) before      *)
(* credentials are resolved and before any transport invocation, and is      *)
(* never retried.                                                            *)
C14_EndpointValidation ==
  ~ValidEndpoint =>
    /\ pc \in {"init", "done"}
    /\ fetchCount = 0 /\ attempt = 0 /\ outcomes = <<>>
    /\ req = NoReq
    /\ Settled =>
         /\ result.kind = "error"
         /\ result.error.cls = "Error"
         /\ result.error.msg = "Endpoint must be a non-empty string"
         /\ result.error.type = NoType

C14_Witness ==
  /\ Settled /\ endpoint = EndpointArg(<<>>)
  /\ ~UrlConfigured /\ NoCredentials
  /\ result.kind = "error" /\ result.error.cls = "Error"
  /\ result.error.msg = "Endpoint must be a non-empty string"

(* C13: with a valid endpoint and a configured URL, the resolved credential  *)
(* is 'Bearer <token>' whenever the token is non-empty after trimming, even   *)
(* when username and password are set too; it is 'Basic' with the base64 of   *)
(* 'username:password' exactly when the token is absent or empty and both     *)
(* username and password are non-empty after trimming; a username without a   *)
(* password, or the reverse, never gives Basic.                               *)
TokenPresent == Truthy(EnvTrim(env.GRAFANA_API_KEY))
UserPresent == Truthy(EnvTrim(env.GRAFANA_USERNAME))
PasswordPresent == Truthy(EnvTrim(env.GRAFANA_PASSWORD))

C13_CredentialPriority ==
  (pc # "init" /\ ValidEndpoint /\ UrlConfigured) =>
    /\ TokenPresent =>
         req.authHeader = [scheme |-> "Bearer", value |-> Trim(env.GRAFANA_API_KEY.val)]
    /\ (req.authHeader.scheme = "Basic") <=>
         (~TokenPresent /\ UserPresent /\ PasswordPresent)
    /\ (req.authHeader.scheme = "Basic") =>
         req.authHeader.value =
           Base64(Trim(env.GRAFANA_USERNAME.val) \o <<COLON>> \o Trim(env.GRAFANA_PASSWORD.val))
    \* base64("u:p") is "dTpw"
    /\ (req.authHeader.scheme = "Basic" /\ env.GRAFANA_USERNAME = Str(<<117>>)
          /\ env.GRAFANA_PASSWORD = Str(<<112>>)) =>
         req.authHeader.value = <<29, 19, 41, 48>>
    /\ (req.authHeader.scheme = "none") <=> NoCredentials

C13_Witness ==
  /\ pc = "inflight"
  /\ env.GRAFANA_API_KEY = Str(<<SP, 107, SP>>)
  /\ env.GRAFANA_USERNAME = Str(<<117>>) /\ env.GRAFANA_PASSWORD = Str(<<112>>)
  /\ req.authHeader = [scheme |-> "Bearer", value |-> <<107>>]
  /\ Len(requests) = 1

(* C15: the request URL has exactly one slash between the base URL and the   *)
(* path however many leading slashes the endpoint has, and an endpoint and   *)
(* the same endpoint with one more leading slash give the identical URL.     *)
RECURSIVE StripLeadingSlashes(_)
StripLeadingSlashes(e) ==
  IF StartsWithSlash(e) THEN StripLeadingSlashes(Tail(e)) ELSE e

C15_SingleSlashJoin ==
  (pc # "init" /\ ValidEndpoint /\ req.url # <<>>) =>
    /\ req.requestUrl = req.url \o StripLeadingSlashes(endpoint.val)
    /\ requestUrl(req.url, normalizeEndpoint(<<SLASH>> \o endpoint.val)) = req.requestUrl

(* C16: for every configured base URL the normalized base URL ends in        *)
(* exactly one trailing slash, and the same configuration with one more      *)
(* trailing slash gives the identical URL.                                   *)
C16_SingleTrailingSlash ==
  (pc # "init" /\ ValidEndpoint /\ req.url # <<>>) =>
    /\ EndsWithSlash(req.url)
    /\ ~EndsWithSlash(SubSeq(req.url, 1, Len(req.url) - 1))
    /\ validateEnvironment(
         [env EXCEPT !.GRAFANA_URL = Str(env.GRAFANA_URL.val \o <<SLASH>>)]).url = req.url

(* C17: for every set of caller headers, including keys spelling             *)
(* Authorization, Content-Type or Accept in any letter case, every request   *)
(* carries Authorization with exactly the resolved credential and            *)
(* Content-Type and Accept with application/json, and caller headers of      *)
(* other names pass through unchanged.                                       *)
FixedNames == {"authorization", "content-type", "accept"}

C17_RequiredHeaders ==
  \A i \in 1 .. Len(requests) :
    LET h == requests[i].headers
    IN /\ wireHeader(h, "authorization") = <<req.authHeader>>
       /\ wireHeader(h, "content-type") = <<ApplicationJson>>
       /\ wireHeader(h, "accept") = <<ApplicationJson>>
       /\ \A j \in 1 .. Len(options.headers) :
            options.headers[j].key.lc \notin FixedNames =>
              wireHeader(h, options.headers[j].key.lc) = <<options.headers[j].value>>

C19_SequentialAttempts ==
  /\ Cardinality(transport) <= 1
  /\ transport # {} =>
       /\ pc = "inflight"
       /\ transport = {attempt}
       /\ Len(outcomes) = fetchCount - 1
       /\ \A i \in 1 .. Len(outcomes) : outcomes[i].at < attempt
  /\ transport = {} => Len(outcomes) = fetchCount
  /\ \A i \in 1 .. Len(requests) : requests[i].at = i - 1
  /\ Len(requests) = fetchCount

C19_Witness ==
  /\ pc = "inflight" /\ attempt = 2 /\ transport = {2}
  /\ fetchCount = 3 /\ Len(outcomes) = 2
  /\ outcomes[1].at = 0 /\ outcomes[2].at = 1

(* C20: when two calls of one process run concurrently, under every          *)
(* interleaving of their steps each call's attempt counter, last error and   *)
(* final outcome are what the call's own options and the outcomes of its own *)
(* attempts give when it runs alone, and its waits and timeouts are its own. *)
RECURSIVE RunAlone(_, _, _, _, _, _)
RunAlone(opt, nrm, ocs, a, le, i) ==
  IF ~loopCondition(a, opt.maxRetries)
  THEN [attempt |-> a, lastError |-> le, result |-> Rejected(outerCatch(le, nrm))]
  ELSE IF i > Len(ocs)
  THEN [attempt |-> a, lastError |-> le, result |-> Pending]
  ELSE IF ocs[i].kind = "ok"
  THEN [attempt |-> a, lastError |-> le,
        result |-> Resolved(jsonDecode(ocs[i].body))]
  ELSE LET e == wrapCaught(ocs[i].thrown, nrm, a, opt.timeoutMs)
       IN IF shouldRetry(e, a, opt.maxRetries)
          THEN RunAlone(opt, nrm, ocs, a + 1, e, i + 1)
          ELSE [attempt |-> a, lastError |-> e,
                result |-> Rejected(outerCatch(e, nrm))]

AsIfAlone(c) ==
  c.pc # "init" =>
    LET nrm == normalizeEndpoint(c.endpoint.val)
        ve == validateEnvironment(env)
        r == IF invalidEndpoint(c.endpoint)
             THEN [attempt |-> 0, lastError |-> NullValue,
                   result |-> Rejected(PlainError("Endpoint must be a non-empty string",
                                                  FALSE, -1))]
             ELSE IF ~ve.ok
             THEN [attempt |-> 0, lastError |-> NullValue,
                   result |-> Rejected(outerCatch(ve.error, nrm))]
             ELSE RunAlone(c.options, nrm, c.outcomes, 0, NullValue, 1)
    IN /\ c.attempt = r.attempt
       /\ c.lastError = r.lastError
       /\ c.result = r.result
       /\ \A i \in 1 .. Len(c.waits) :
            c.waits[i] = IF i = 1 THEN 0 ELSE retryDelay(c.options.baseRetryDelayMs, i - 1)
       /\ \A i \in 1 .. Len(c.outcomes) :
            c.outcomes[i].kind = "abort" =>
              \/ c.waits[i] + c.outcomes[i].elapsed = c.options.timeoutMs
              \/ c.outcomes[i].elapsed = 0 /\ c.waits[i] >= c.options.timeoutMs

C20_ConcurrentCallsIndependent ==
  AsIfAlone(Self) /\ \A i \in 1 .. Len(peer) : AsIfAlone(peer[i])

C20_Witness ==
  /\ peer # <<>>
  /\ pc = "done" /\ peer[1].pc = "done"
  /\ endpoint = EndpointArg(<<97>>)
  /\ attempt = 1 /\ result.kind = "value" /\ Len(outcomes) = 2
  /\ peer[1].attempt = 0 /\ peer[1].result.kind = "error"
  /\ peer[1].lastError.type = TIMEOUT
  /\ outcomes[1].elapsed = 1

(* C21: every call eventually settles, given that timers fire and that an   *)
(* aborted fetch rejects; when the transport never responds the call rejects *)
(* no earlier than timeoutMs after the fetch was issued, with kind TIMEOUT,  *)
(* statusCode 408 and a message naming timeoutMs, and the fetch in flight    *)
(* has been aborted.                                                         *)
NeverResponded ==
  outcomes # <<>> /\ \A i \in 1 .. Len(outcomes) : outcomes[i].kind = "abort"

TimeoutShape ==
  (Settled /\ NeverResponded) =>
    /\ result.kind = "error"
    /\ result.error.cls = "GrafanaApiError"
    /\ result.error.type = TIMEOUT
    /\ result.error.statusCode = 408
    /\ result.error.msg = "Request timed out"
    /\ result.error.arg = options.timeoutMs
    /\ Last(outcomes).elapsed >= options.timeoutMs
    /\ aborted[Last(outcomes).at]
    /\ transport = {}

MessageClass(m) ==
  IF m = AUTH_ERROR THEN "credentials"
  ELSE IF m \in {NOT_FOUND_ERROR, PANEL_NOT_FOUND_ERROR} THEN "missing"
  ELSE IF m = SERVER_ERROR THEN "later"
  ELSE "generic"

ExpectedClass(type) ==
  IF type \in {AUTHENTICATION, AUTHORIZATION} THEN "credentials"
  ELSE IF type = NOT_FOUND THEN "missing"
  ELSE IF type = SERVER THEN "later"
  ELSE "generic"

C22_MessageByKind ==
  (Settled /\ result.kind = "error" /\ result.error.cls = "GrafanaApiError") =>
    /\ MessageClass(getErrorMessage(result.error)) = ExpectedClass(result.error.type)
    /\ MessageClass(panelDataErrorMessage(result.error)) = ExpectedClass(result.error.type)

(* C30: for every error thrown by grafanaApiRequest a statusCode >= 500      *)
(* means that an HTTP response with that status was received and the kind is *)
(* SERVER; a failure in which no HTTP failure response was received never    *)
(* carries a statusCode >= 500.                                              *)
C30_ServerStatusMeansResponse ==
  (Settled /\ result.kind = "error" /\ result.error.cls = "GrafanaApiError"
     /\ result.error.statusCode >= 500) =>
    /\ outcomes # <<>>
    /\ Last(outcomes).kind = "http"
    /\ Last(outcomes).status = result.error.statusCode
    /\ result.error.type = SERVER

(* C27: the listing tools never throw and return an empty array on any       *)
(* failure of grafanaApiRequest, typed or not; the querying tools throw to   *)
(* their caller the very error that grafanaApiRequest threw.                 *)
ListingTools == {"listDatasources", "listDashboards"}
QueryingTools == {"queryDatasource", "getDashboard", "getDashboardPanelData"}

C27_ToolErrorPolicy ==
  (toolRun.pc = "done") =>
    LET r == Last(toolRun.apiResults)
    IN /\ toolRun.tool \in ListingTools =>
            /\ toolRun.outcome.kind = "value"
            /\ r.kind = "error" => toolRun.outcome.value = ArrayValue(0)
       /\ (toolRun.tool \in QueryingTools /\ r.kind = "error") =>
            toolRun.outcome = ToolRejected(r.error)

C27_Witness ==
  /\ toolRun.pc = "done" /\ toolRun.tool = "queryDatasource"
  /\ Last(toolRun.apiResults).kind = "error"
  /\ Last(toolRun.apiResults).error.type = SERVER
  /\ toolRun.outcome = ToolRejected(Last(toolRun.apiResults).error)

(* C28: getDashboardPanelData issues the dashboard fetch before the data     *)
(* query, and never issues the data query when the dashboard fetch fails,    *)
(* when no panel with the requested id exists or when the panel has no       *)
(* targets: it then throws after exactly one API request.                    *)
C28_FetchBeforeQuery ==
  (toolRun.tool = "getDashboardPanelData") =>
    /\ toolRun.apiRequests \in {<<"/api/dashboards/uid/">>,
                                <<"/api/dashboards/uid/", "/api/ds/query">>}
    /\ Len(toolRun.apiRequests) = 2 =>
         /\ toolRun.apiResults[1].kind = "value"
         /\ toolRun.apiResults[1].value = DashboardValue("ok")
    /\ (toolRun.apiResults # <<>>
          /\ (\/ toolRun.apiResults[1].kind = "error"
              \/ toolRun.apiResults[1].value \in {DashboardValue("absent"),
                                                  DashboardValue("notargets")})) =>
         /\ toolRun.pc = "done"
         /\ toolRun.outcome.kind = "error"
         /\ Len(toolRun.apiRequests) = 1

C28_Witness ==
  /\ toolRun.tool = "getDashboardPanelData" /\ toolRun.pc = "done"
  /\ toolRun.apiResults = <<ToolResolved(DashboardValue("notargets"))>>
  /\ toolRun.outcome.kind = "error" /\ Len(toolRun.apiRequests) = 1

(* every kind and status of error that grafanaApiRequest rejects with for a  *)
(* valid endpoint is among the errors the tools are run against              *)
ApiThrownCovers ==
  (Settled /\ result.kind = "error" /\ ValidEndpoint) =>
    \E e \in ApiThrown :
      /\ e.cls = result.error.cls
      /\ e.type = result.error.type
      /\ e.statusCode = result.error.statusCode

(* C23: discoverDashboards answers from the cache, without calling          *)
(* listDashboards, exactly when a cache entry exists and the time read is    *)
(* before its expiry; the expiry is the cache lifetime after the start of    *)
(* the list call that produced the entry; a discovery at or after the expiry *)
(* calls listDashboards; under every interleaving of flows a list served     *)
(* from the cache was requested less than the lifetime before.               *)
Flows == 1 .. MaxFlows
Discovered(f) == flow[f].discovery.kind # "none"
FromCache(f) == flow[f].discovery.kind = "cached"
CallsListDashboards(f) ==
  \E i \in 1 .. Len(flow[f].steps) : flow[f].steps[i].call = "listDashboards"

C23_CacheWithinLifetime ==
  /\ dashboardsCache.present =>
       dashboardsCacheExpiry = dashboardsCache.issuedAt + CACHE_TTL_MS
  /\ \A f \in Flows :
       LET d == flow[f].discovery
       IN Discovered(f) =>
            /\ FromCache(f) <=> (d.sawCache /\ d.now < d.sawExpiry)
            /\ FromCache(f) <=> ~CallsListDashboards(f)
            /\ FromCache(f) =>
                 /\ d.sawExpiry = d.issuedAt + CACHE_TTL_MS
                 /\ d.now - d.issuedAt < CACHE_TTL_MS

C23_Witness ==
  \E f, g \in Flows :
    /\ FromCache(f) /\ flow[f].discovery.now > flow[f].discovery.issuedAt
    /\ flow[g].discovery.kind = "listed" /\ flow[g].discovery.sawCache
    /\ flow[g].discovery.now >= flow[g].discovery.sawExpiry
    /\ flow[g].pc = "listing"

(* C24: when the analysis reports requiresDashboardData = false with a       *)
(* non-empty directAnswer, the flow sends that answer as a chunk and returns *)
(* it, calling neither listDashboards nor getDashboardPanelData nor          *)
(* generateStream; when it reports false without a directAnswer, throws or   *)
(* has a null output, the flow goes on to the discovery of the dashboards.   *)
Analysed(f) == flow[f].output.kind # "none"
DirectAnswer(o) ==
  o.kind = "output" /\ ~o.requiresDashboardData /\ TruthyString(o.directAnswer)
NoDirectAnswer(o) ==
  \/ o.kind \in {"throws", "null"}
  \/ o.kind = "output" /\ ~o.requiresDashboardData /\ ~TruthyString(o.directAnswer)

C24_DirectAnswer ==
  \A f \in Flows :
    LET o == flow[f].output
    IN Analysed(f) =>
         /\ DirectAnswer(o) =>
              /\ flow[f].pc = "done"
              /\ flow[f].chunks = <<o.directAnswer.val>>
              /\ flow[f].answer = Some(o.directAnswer.val)
              /\ flow[f].steps = <<Step("analyzeQuestion", "none")>>
         /\ NoDirectAnswer(o) =>
              /\ Len(flow[f].steps) >= 2
              /\ flow[f].steps[2].call \in {"listDashboards", "dashboardsCache"}

C24_Witness ==
  /\ Analysed(1) /\ DirectAnswer(flow[1].output) /\ flow[1].pc = "done"
  /\ flow[1].answer = Some("It is a dashboard tool.")

(* C25: when the analysis returns requiresDashboardData = true with a        *)
(* dashboardUid and a panelId, whatever the uid string and the panel id      *)
(* number, the flow calls neither the discovery nor the selection and calls  *)
(* getDashboardPanelData with that uid, that panel id and the time range of  *)
(* the analysis, now-1h and now standing for a missing from and to.          *)
NamesPanel(o) ==
  o.kind = "output" /\ o.requiresDashboardData /\ o.dashboardUid.set /\ o.panelId.set

C25_AnalysisPanelUsed ==
  \A f \in Flows :
    LET o == flow[f].output
    IN (Analysed(f) /\ NamesPanel(o)) =>
         /\ Len(flow[f].steps) >= 2
         /\ flow[f].steps[2].call = "getDashboardPanelData"
         /\ flow[f].panelParams =
              [dashboardUid |-> o.dashboardUid.val, panelId |-> o.panelId.val,
               from |-> IF o.from.set THEN o.from.val ELSE FROM,
               to |-> IF o.to.set THEN o.to.val ELSE TO]

(* the same for a non-empty uid and a panel id other than 0 *)
AnalysisPanelUsedWhenTruthy ==
  \A f \in Flows :
    LET o == flow[f].output
    IN (Analysed(f) /\ NamesPanel(o) /\ o.dashboardUid.val # "" /\ o.panelId.val # 0) =>
         /\ Len(flow[f].steps) >= 2
         /\ flow[f].steps[2].call = "getDashboardPanelData"
         /\ flow[f].panelParams =
              [dashboardUid |-> o.dashboardUid.val, panelId |-> o.panelId.val,
               from |-> IF o.from.set THEN o.from.val ELSE FROM,
               to |-> IF o.to.set THEN o.to.val ELSE TO]

(* C26: the flow invokes its steps in the order analysis, discovery,         *)
(* selection, panel data, interpretation, each after the one before has      *)
(* settled; when a step after the analysis fails (no dashboards, a null      *)
(* selection, no panel data, a thrown error) no later step is invoked, the   *)
(* failure message is the last chunk sent and the flow returns it as answer. *)
Rank(call) ==
  IF call = "analyzeQuestion" THEN 1
  ELSE IF call \in {"listDashboards", "dashboardsCache"} THEN 2
  ELSE IF call = "selectDashboardPanel" THEN 3
  ELSE IF call = "getDashboardPanelData" THEN 4
  ELSE 5

ErrorMessages ==
  {AUTH_ERROR, NOT_FOUND_ERROR, PANEL_NOT_FOUND_ERROR, SERVER_ERROR, GENERAL_ERROR,
   PANEL_GENERAL_ERROR}

FailureMessages(step) ==
  IF step.fail = "empty" THEN {NO_DASHBOARDS}
  ELSE IF step.fail = "null" /\ step.call = "selectDashboardPanel" THEN {NO_SELECTION}
  ELSE IF step.fail = "null" THEN {NO_PANEL_DATA}
  ELSE ErrorMessages

C29_FailedListNotCached ==
  /\ dashboardsCache.present => ~dashboardsCache.failed
  /\ \A f \in Flows : FromCache(f) => ~flow[f].discovery.failed

(* C31: the throw after the attempt loop is never reached: for every         *)
(* maxRetries a caller passes, once the credentials resolve the call invokes *)
(* the transport at least once and leaves the loop by a return or a throw    *)
(* inside it, so lastError is never thrown while it is null.                 *)
CredentialsResolve == ValidEndpoint /\ validateEnvironment(env).ok

C31_LoopNeverFallsThrough ==
  (Settled /\ CredentialsResolve) =>
    /\ fetchCount >= 1
    /\ loopCondition(attempt, options.maxRetries)
    /\ result.kind = "error" => lastError # NullValue

(* the same for a maxRetries that is not negative *)
LoopNeverFallsThroughFromZero ==
  (Settled /\ CredentialsResolve /\ options.maxRetries >= 0) =>
    /\ fetchCount >= 1
    /\ loopCondition(attempt, options.maxRetries)
    /\ result.kind = "error" => lastError # NullValue

(* C32: when a call settles no timeout timer armed by one of its attempts is *)
(* pending: whatever the outcome of an attempt (success, failure response,   *)
(* rejected fetch, abort), its timer has fired or has been cleared before    *)
(* the outcome is handled, so no timer calls abort after the call finished.  *)
C32_NoTimerOutlivesAttempt ==
  \A k \in AttemptIds : timer[k] >= 0 => (~Settled /\ k = attempt)

(* the same for calls none of whose fetches was rejected *)
NoTimerOutlivesAnsweredAttempt ==
  (\A i \in 1 .. Len(outcomes) : outcomes[i].kind # "reject") =>
    \A k \in AttemptIds : timer[k] >= 0 => (~Settled /\ k = attempt)

====
